---- MODULE Spec2Model ----
(***************************************************************************)
(* Agentic-News_RAG: the orchestration of backend/rag.                     *)
(*                                                                         *)
(* run_query (integrated_graph.py) looks the query up in the QueryCache,   *)
(* runs the LangGraph pipeline                                             *)
(*   query_analysis -> internal_db_search -> relevance_check               *)
(*       -> [naver_search ->] build_context -> generation                  *)
(* and stores the result in the cache.                                     *)
(*                                                                         *)
(* Strings are model strings.  A text that the code builds by              *)
(* concatenation or splits into lines is a sequence of parts, so that      *)
(* emptiness, the first line and "the first line holding a URL" are        *)
(* computed as the code computes them.  Korean literals of the source are  *)
(* written with ASCII stand-ins, named where they are defined.  Scores are *)
(* hundredths (0.9 is 90).                                                 *)
(***************************************************************************)
EXTENDS Integers, Sequences, FiniteSets, TLC

(***************************************************************************)
(* Bounds of the model.                                                    *)
(***************************************************************************)
MaxSubQueries == 2      \* sub-queries the analyzer model returns
MaxHits == 2            \* internal hits returned per sub-query
MaxNaver == 2           \* results of one Naver call
MaxRuns == 2            \* run_query calls in the multi-run specification
MaxTime == 3            \* clock ticks
ttl == 2                \* QueryCache.ttl, in ticks
max_size == 2           \* QueryCache.max_size

(***************************************************************************)
(* Small helpers on sequences.                                             *)
(***************************************************************************)
Range(s) == {s[i] : i \in DOMAIN s}

SeqsUpTo(S, n) == UNION {[1..k -> S] : k \in 0..n}

Take(s, n) == SubSeq(s, 1, IF Len(s) < n THEN Len(s) ELSE n)

RECURSIVE SumSeq(_)
SumSeq(s) == IF s = <<>> THEN 0 ELSE Head(s) + SumSeq(Tail(s))

RECURSIVE Flatten(_)
Flatten(ss) == IF ss = <<>> THEN <<>> ELSE Head(ss) \o Flatten(Tail(ss))

\* the order-preserving list of the distinct elements of s (a dict's key order)
RECURSIVE Distinct(_)
Distinct(s) ==
    IF s = <<>> THEN <<>>
    ELSE LET r == Distinct(SubSeq(s, 1, Len(s) - 1))
             x == s[Len(s)]
         IN  IF x \in Range(r) THEN r ELSE Append(r, x)

(***************************************************************************)
(* Queries and the recency keywords.                                       *)
(*   "today ai" stands for a query holding one of time_keywords            *)
(*   ("오늘", "최신", ...); "AI " differs from "ai" in case and trailing   *)
(*   blank only.                                                           *)
(***************************************************************************)
\* the queries of the multi-run specification: equal up to case and blanks
CacheQueries == {"ai", "AI "}

\* the queries of the single-run specification: one without, one with a keyword
PipelineQueries == {"ai", "today ai"}

PipelineHistories == {"None"}

ChatHistories == {"None", "[u1]"}

time_keywords == {"today"}

\* keyword in user_query (substring test), on the queries of the model
KeywordIn(keyword, user_query) ==
    <<keyword, user_query>> \in
        {<<"today", "today ai">>, <<"recent", "recent ai">>, <<"explain", "explain ai">>,
         <<"today", "why explain today ai">>, <<"explain", "why explain today ai">>,
         <<"why", "why explain today ai">>}

\* any(keyword in user_query for keyword in time_keywords)
needs_recent_info(user_query) ==
    \E keyword \in time_keywords : KeywordIn(keyword, user_query)

\* the queries sent to the fallback agent: without a keyword, with a keyword
\* of both lists below, with one of api_keywords only, with one of
\* llm_keywords, and with one api keyword against two llm keywords
AgentQueries == {"ai", "today ai", "recent ai", "explain ai", "why explain today ai"}

\* decide_search_method: "today" stands for "오늘", "최신", "뉴스", "기사",
\* "검색", "찾아"; "recent" for "어제", "이번 주", "최근", "알려줘", ...
api_keywords == {"today", "recent"}

\* decide_search_method: "explain" and "why" stand for "설명", "왜", "무엇", ...
llm_keywords == {"explain", "why"}

\* the list process_query tests in its fallback branch:
\* "검색", "찾아", "뉴스", "기사", "최신", "오늘"
method_keywords == {"today"}

\* the keyword scores are counts of the keywords held by query.lower();
\* equal scores give "api_search"
decide_search_method(query) ==
    LET api_score == Cardinality({keyword \in api_keywords : KeywordIn(keyword, query)})
        llm_score == Cardinality({keyword \in llm_keywords : KeywordIn(keyword, query)})
    IN  IF api_score > llm_score THEN "api_search"
        ELSE IF llm_score > api_score THEN "llm_generate"
        ELSE "api_search"

\* NewsAgent.run: the branch decide_search_method names is executed; an
\* exception of the LLM becomes an answer text
agent_run(query, llm_ok) ==
    [branch |-> decide_search_method(query),
     answer |-> IF llm_ok THEN <<"ans">> ELSE <<"AGENT_ERROR">>]

\* "api_search" if any(kw in request.query.lower() for kw in [...]) else "llm_generate"
fallback_method(query) ==
    IF \E kw \in method_keywords : KeywordIn(kw, query)
    THEN "api_search" ELSE "llm_generate"

\* query.lower().strip()
LowerStrip(s) ==
    CASE s = "AI " -> "ai"
      [] s = "WEB " -> "web"
      [] s = "Web search" -> "web search"
      [] OTHER -> s

\* variant: decision == "web"
ContainsWeb_exact(s) == s = "web"

\* "web" in decision
ContainsWeb(s) == s \in {"web", "web search"}

(***************************************************************************)
(* Lines and texts.  A line is [num, ind, s]: the text s, after a          *)
(* "<num>. " prefix when num > 0, after three blanks when ind.             *)
(***************************************************************************)
Line(s) == [num |-> 0, ind |-> FALSE, s |-> s]

Links == {"http://a", "http://b"}

\* "http" in line or "www" in line
HasHttp(line) == line.s \in Links

\* line.strip(): leading and trailing blanks go
Strip(line) == [line EXCEPT !.ind = FALSE]

\* the stripped line as the string a Source keeps in url; a numbered line
\* keeps its prefix, which no URL of the model carries
LineText(line) == IF line.num = 0 THEN line.s ELSE "numbered"

FailSentinel == <<Line("WEB_SEARCH_FAILED")>>     \* "웹 검색 실패"

NoResultsContext == <<"NO_RESULTS">>              \* "검색 결과가 없습니다."

(***************************************************************************)
(* What the collaborators can answer.                                      *)
(***************************************************************************)
SubQueryTexts == {"s1", "s2"}

\* the sub_queries lists of the analyzer model, up to renaming of s1 and s2
SubQuerySeqs ==
    {s \in SeqsUpTo(SubQueryTexts, MaxSubQueries) :
        /\ s # <<>> => s[1] = "s1"}

\* llm.invoke(prompt) in analyze_query: the call raises, the content is no
\* JSON object, or it is an object with some of the keys
AnalysisOutputs ==
    {[kind |-> k, keys |-> {}, intent |-> "", search_strategy |-> "",
      sub_queries |-> <<>>, sub_is_list |-> FALSE, needs_web_search |-> FALSE]
        : k \in {"raise", "unparsable", "object"}}
    \cup
    {[kind |-> "object", keys |-> {"intent", "search_strategy", "sub_queries"} \cup nw,
      intent |-> "qa", search_strategy |-> "internal_only",
      sub_queries |-> sq, sub_is_list |-> TRUE, needs_web_search |-> nw # {}]
        : sq \in SubQuerySeqs, nw \in {{}, {"needs_web_search"}}}
    \cup
    {[kind |-> "object", keys |-> {"intent", "sub_queries"},
      intent |-> "qa", search_strategy |-> "",
      sub_queries |-> <<>>, sub_is_list |-> FALSE, needs_web_search |-> FALSE]}

\* internal hits: [_score, url, title] of _source
HitPool ==
    {[score |-> 95, url |-> "http://a", title |-> "t1"],
     [score |-> 50, url |-> "", title |-> "t1"]}

\* ranked hit lists (non-increasing score, distinct documents)
HitLists ==
    {h \in SeqsUpTo(HitPool, MaxHits) :
        \A i, j \in DOMAIN h : i < j => h[i].score > h[j].score}

\* llm.invoke(prompt).content in check_relevance, or the call raises
JudgeResponses == {"db", "WEB ", "Web search", "raise"}

\* SearchResult objects of the Naver client
NaverPool ==
    {[title |-> "t1", link |-> "http://a"],
     [title |-> "t2", link |-> ""]}

num_results == 5

\* client.search(query=q, num_results=5, provider="naver"): at most
\* num_results distinct results, the ones with a link ranked first
NaverLists ==
    {r \in SeqsUpTo(NaverPool, MaxNaver) :
        /\ Len(r) <= num_results
        /\ \A i, j \in DOMAIN r : i < j => (r[i].link # "" /\ r[j].link = "")}

\* DuckDuckGoSearchRun().run(q): a text without a URL, a text with a URL line
DdgTexts == {<<Line("t3")>>, <<Line("t3"), Line("http://b")>>}

\* llm.invoke(messages).content in generate_answer: tokens of the text;
\* "CITED" stands for a text holding "참고 자료" or "출처"
LlmAnswers == {<<>>, <<"ans">>, <<"ans", "CITED">>}

(***************************************************************************)
(* AgentState.  A dict whose keys vary is a record with the set of keys    *)
(* present; an insertion-ordered dict is a sequence of [q, ...] entries    *)
(* with distinct q.                                                        *)
(***************************************************************************)
EmptyDict ==
    [keys |-> {}, intent |-> "", search_strategy |-> "",
     sub_queries |-> <<>>, needs_web_search |-> FALSE]

\* initial_state of run_query
initial_state(user_query, chat_history) ==
    [user_query |-> user_query,
     chat_history |-> chat_history,
     query_analysis |-> EmptyDict,
     es_results |-> [keys |-> {}, queries |-> <<>>, total |-> 0],
     is_relevant_enough |-> FALSE,
     relevance_score |-> [num |-> 0, den |-> 1],
     need_websearch |-> <<>>,
     naver_results |-> <<>>,
     web_results |-> <<>>,
     context |-> <<>>,
     sources |-> <<>>,
     answer |-> <<>>]

\* d[q] = v on an insertion-ordered dict
DictSet(d, q, v) ==
    IF \E i \in DOMAIN d : d[i].q = q
    THEN [i \in DOMAIN d |-> IF d[i].q = q THEN [q |-> q, v |-> v] ELSE d[i]]
    ELSE Append(d, [q |-> q, v |-> v])

DictKeys(d) == [i \in DOMAIN d |-> d[i].q]

\* query_analysis.get("sub_queries", [state["user_query"]])
sub_queries_of(state) ==
    IF "sub_queries" \in state.query_analysis.keys
    THEN state.query_analysis.sub_queries
    ELSE <<state.user_query>>

(***************************************************************************)
(* analyze_query                                                           *)
(***************************************************************************)
\* variant: sub_queries is defaulted only when the key is missing
analyze_query_keep(state, out) ==
    LET user_query == state.user_query
        recent == needs_recent_info(user_query)
        default ==
            [keys |-> {"intent", "search_strategy", "sub_queries"},
             intent |-> "search", search_strategy |-> "internal_and_external",
             sub_queries |-> <<user_query>>, needs_web_search |-> FALSE]
        parsed ==
            [keys |-> out.keys \cup {"intent", "search_strategy", "sub_queries"}
                      \cup (IF recent THEN {"needs_web_search"} ELSE {}),
             intent |-> IF "intent" \in out.keys THEN out.intent ELSE "search",
             search_strategy |->
                 IF recent \/ "search_strategy" \notin out.keys
                 THEN "internal_and_external" ELSE out.search_strategy,
             sub_queries |->
                 IF "sub_queries" \notin out.keys
                 THEN <<user_query>> ELSE out.sub_queries,
             needs_web_search |-> recent \/ out.needs_web_search]
    IN  [state EXCEPT !.query_analysis =
            IF out.kind = "object" THEN parsed ELSE default]

analyze_query(state, out) ==
    LET user_query == state.user_query
        recent == needs_recent_info(user_query)
        default ==
            [keys |-> {"intent", "search_strategy", "sub_queries"},
             intent |-> "search", search_strategy |-> "internal_and_external",
             sub_queries |-> <<user_query>>, needs_web_search |-> FALSE]
        parsed ==
            [keys |-> out.keys \cup {"intent", "search_strategy", "sub_queries"}
                      \cup (IF recent THEN {"needs_web_search"} ELSE {}),
             intent |-> IF "intent" \in out.keys THEN out.intent ELSE "search",
             search_strategy |->
                 IF recent \/ "search_strategy" \notin out.keys
                 THEN "internal_and_external" ELSE out.search_strategy,
             sub_queries |->
                 IF "sub_queries" \notin out.keys \/ ~out.sub_is_list
                 THEN <<user_query>> ELSE out.sub_queries,
             needs_web_search |-> recent \/ out.needs_web_search]
    IN  [state EXCEPT !.query_analysis =
            IF out.kind = "object" THEN parsed ELSE default]

(***************************************************************************)
(* search_internal_db                                                      *)
(***************************************************************************)
\* search.es_client.search_multiple_queries: one ranked hit list per
\* sub-query, index[q] being what the store ranks for q
search_multiple_queries(queries, index) ==
    LET ks == Distinct(queries)
    IN  [i \in DOMAIN ks |-> [q |-> ks[i], v |-> index[ks[i]]]]

\* variant: without a usable store es_results is left as it was
search_internal_db_stale(state, es) ==
    LET sub_queries == sub_queries_of(state)
        all_results == search_multiple_queries(sub_queries, es.index)
        total_hits == SumSeq([i \in DOMAIN all_results |-> Len(all_results[i].v)])
    IN  IF es.kind = "ok"
        THEN [state EXCEPT !.es_results =
                 [keys |-> {"queries", "total"}, queries |-> all_results,
                  total |-> total_hits]]
        ELSE state

\* es is [kind, index]: kind "none" (es_client is None: the graph was built
\* without a store), "raise" (the search raises) or "ok"
search_internal_db(state, es) ==
    LET sub_queries == sub_queries_of(state)
        all_results == search_multiple_queries(sub_queries, es.index)
        total_hits == SumSeq([i \in DOMAIN all_results |-> Len(all_results[i].v)])
    IN  [state EXCEPT !.es_results =
            IF es.kind = "ok"
            THEN [keys |-> {"queries", "total"}, queries |-> all_results,
                  total |-> total_hits]
            ELSE [keys |-> {"queries", "total"}, queries |-> <<>>, total |-> 0]]

(***************************************************************************)
(* check_relevance                                                         *)
(***************************************************************************)
\* the decision for one sub-query: "web" under the recency hint or the
\* analyzer's flag, else the judge's answer, "db" when the call raises
\* variant: the recency hint of the question is not looked at
decision_of_flag_only(state, response) ==
    IF "needs_web_search" \in state.query_analysis.keys
       /\ state.query_analysis.needs_web_search
    THEN "web"
    ELSE IF response = "raise" THEN "db" ELSE LowerStrip(response)

\* variant: a failed judge call counts as "web"
decision_of_failed_web(state, response) ==
    IF needs_recent_info(state.user_query)
       \/ ("needs_web_search" \in state.query_analysis.keys
           /\ state.query_analysis.needs_web_search)
    THEN "web"
    ELSE IF response = "raise" THEN "web" ELSE LowerStrip(response)

decision_of(state, response) ==
    IF needs_recent_info(state.user_query)
       \/ ("needs_web_search" \in state.query_analysis.keys
           /\ state.query_analysis.needs_web_search)
    THEN "web"
    ELSE IF response = "raise" THEN "db" ELSE LowerStrip(response)

\* judge[q] is the response of llm.invoke for sub-query q
check_relevance(state, judge) ==
    LET queries_results == state.es_results.queries
        NeedsWeb(e) == ContainsWeb(decision_of(state, judge[e.q]))
        need_web == DictKeys(SelectSeq(queries_results, NeedsWeb))
        HasHits(e) == e.v # <<>>
        with_hits == SelectSeq(queries_results, HasHits)
        scores == [i \in DOMAIN with_hits |-> with_hits[i].v[1].score]
    IN  IF queries_results = <<>>
        THEN [state EXCEPT !.is_relevant_enough = FALSE,
                           !.relevance_score = [num |-> 0, den |-> 1],
                           !.need_websearch = sub_queries_of(state)]
        ELSE [state EXCEPT !.is_relevant_enough = (need_web = <<>>),
                           !.relevance_score =
                               IF scores # <<>>
                               THEN [num |-> SumSeq(scores), den |-> Len(scores)]
                               ELSE [num |-> 0, den |-> 1],
                           !.need_websearch = need_web]

(***************************************************************************)
(* The average of lines 168-177 of relevance_check as the interpreter      *)
(* evaluates it: _score values are binary floating-point numbers, sum()    *)
(* and / round to the nearest one, ties to the even significand.  The      *)
(* format here has MantissaBits significand bits; a number is counted in   *)
(* units of the smallest spacing.  check_relevance above carries the       *)
(* quotient unevaluated, as [num, den].                                    *)
(***************************************************************************)
MantissaBits == 3       \* significand bits of the modelled format
MaxScored == 3          \* sub-queries in one evaluation of the average

RECURSIVE Pow2(_)
Pow2(n) == IF n = 0 THEN 1 ELSE 2 * Pow2(n - 1)

Significands == Pow2(MantissaBits - 1)..(Pow2(MantissaBits) - 1)

\* exponents of the _score values, and of every sum and quotient of them
ScoreExponents == 2..3
FloatExponents == 0..(3 + MaxScored)

ScoreValues == {m * Pow2(e) : m \in Significands, e \in ScoreExponents}

\* the float nearest to a / b (a >= 0, b > 0), of two equally near ones the
\* one with the even significand: the quotient by the spacing u of the
\* binade of a / b, rounded on its remainder
RoundToFloat(a, b) ==
    IF a = 0 THEN 0
    ELSE LET e == CHOOSE x \in FloatExponents :
                      /\ Pow2(MantissaBits - 1) * Pow2(x) * b <= a
                      /\ a < Pow2(MantissaBits) * Pow2(x) * b
             u == Pow2(e) * b
             m == a \div u
             r == a % u
         IN  IF 2 * r < u \/ (2 * r = u /\ m % 2 = 0)
             THEN m * Pow2(e)
             ELSE (m + 1) * Pow2(e)

\* sum(scores): the additions from left to right, each one rounded
RECURSIVE float_sum(_, _)
float_sum(acc, scores) ==
    IF scores = <<>> THEN acc
    ELSE float_sum(RoundToFloat(acc + Head(scores), 1), Tail(scores))

\* sum(scores) of an interpreter that adds with compensation: the exact
\* sum, rounded once
float_sum_compensated(scores) == RoundToFloat(SumSeq(scores), 1)

\* variant: the sum is divided by the number of sub-queries
relevance_score_over_all(queries_results, compensated) ==
    LET HasHits(hits) == hits # <<>>
        with_hits == SelectSeq(queries_results, HasHits)
        scores == [i \in DOMAIN with_hits |-> with_hits[i][1]]
        total == IF compensated THEN float_sum_compensated(scores)
                 ELSE float_sum(0, scores)
    IN  IF queries_results # <<>> /\ scores # <<>>
        THEN RoundToFloat(total, Len(queries_results))
        ELSE 0

\* relevance_score for the hit scores of each sub-query, best hit first
relevance_score_of(queries_results, compensated) ==
    LET HasHits(hits) == hits # <<>>
        with_hits == SelectSeq(queries_results, HasHits)
        scores == [i \in DOMAIN with_hits |-> with_hits[i][1]]
        total == IF compensated THEN float_sum_compensated(scores)
                 ELSE float_sum(0, scores)
    IN  IF queries_results # <<>> /\ scores # <<>>
        THEN RoundToFloat(total, Len(scores))
        ELSE 0

\* variant: the edge looks at need_websearch only
should_search_naver_need_only(state) ==
    IF Len(state.need_websearch) > 0
    THEN "naver_search"
    ELSE "build_context"

should_search_naver_both(state) ==
    IF ~state.is_relevant_enough /\ Len(state.need_websearch) > 0
    THEN "naver_search"
    ELSE "build_context"

should_search_naver(state) ==
    IF ~state.is_relevant_enough \/ Len(state.need_websearch) > 0
    THEN "naver_search"
    ELSE "build_context"


(***************************************************************************)
(* search_naver: the locals web_results and naver_results after each       *)
(* outcome of the provider chain for sub-query q.                          *)
(***************************************************************************)
\* "\n".join(f"{i+1}. {r.title}\n   {r.link}\n   {r.snippet[:200]}...")
naver_text(results) ==
    Flatten([i \in DOMAIN results |->
        << [num |-> i, ind |-> FALSE, s |-> results[i].title],
           [num |-> 0, ind |-> TRUE, s |-> results[i].link],
           [num |-> 0, ind |-> TRUE, s |-> "snippet..."] >>])

naver_ok(loc, q, results) ==
    [loc EXCEPT !.web_results = DictSet(@, q, naver_text(results)),
                !.naver_results = @ \o results]

ddg_ok(loc, q, result) ==
    [loc EXCEPT !.web_results = DictSet(@, q, result)]

ddg_failed(loc, q) ==
    [loc EXCEPT !.web_results = DictSet(@, q, FailSentinel)]

\* the chain for need_web[i], outcomes[i] = [naver, results, ddg, result]
\* telling which provider call succeeds and with what
RECURSIVE naver_loop(_, _, _, _)
naver_loop(loc, need_web, outcomes, i) ==
    IF i > Len(need_web) THEN loc
    ELSE LET q == need_web[i]
             o == outcomes[i]
             next == IF o.naver THEN naver_ok(loc, q, o.results)
                     ELSE IF o.ddg THEN ddg_ok(loc, q, o.result)
                     ELSE ddg_failed(loc, q)
         IN  naver_loop(next, need_web, outcomes, i + 1)

search_naver(state, outcomes) ==
    LET l == naver_loop([web_results |-> <<>>, naver_results |-> <<>>],
                        state.need_websearch, outcomes, 1)
    IN  [state EXCEPT !.naver_results = l.naver_results,
                      !.web_results = l.web_results]

(***************************************************************************)
(* search_multi_source (rag/nodes/multi_source_search.py): the node that   *)
(* asks both providers for every entry of need_websearch through a thread  *)
(* pool and merges what arrives.  all_results maps a query to the list of  *)
(* result texts collected for it.                                          *)
(***************************************************************************)
MultiSentinel == <<Line("NO_SEARCH_RESULT")>>       \* "검색 결과 없음"

multi_max_results == 10       \* unique_results[:10]

\* one text per Naver result: "<i>. title", link line, snippet line
naver_texts(results) ==
    [i \in DOMAIN results |->
        << [num |-> i, ind |-> FALSE, s |-> results[i].title],
           [num |-> 0, ind |-> TRUE, s |-> results[i].link],
           [num |-> 0, ind |-> TRUE, s |-> "snippet..."] >>]

\* f"[DuckDuckGo] {result[:500]}": num = -1 marks the prefix of the first line
ddg_text(result) == <<[result[1] EXCEPT !.num = -1]>> \o Tail(result)

\* all_results[query].extend(texts), the list being created when absent
multi_extend(all_results, query, texts) ==
    IF \E i \in DOMAIN all_results : all_results[i].q = query
    THEN [i \in DOMAIN all_results |->
             IF all_results[i].q = query
             THEN [q |-> query, v |-> all_results[i].v \o texts]
             ELSE all_results[i]]
    ELSE Append(all_results, [q |-> query, v |-> texts])

\* the body of the as_completed loop for one future: source_type, query and
\* what the call returned (ok = FALSE: it returned an error)
multi_collect(m, source_type, query, ok, result) ==
    IF ~ok \/ result = <<>> THEN m
    ELSE IF source_type = "naver"
    THEN [m EXCEPT !.naver_results = @ \o result,
                   !.all_results = multi_extend(@, query, naver_texts(result))]
    ELSE [m EXCEPT !.all_results = multi_extend(@, query, <<ddg_text(result)>>)]

\* the texts whose first line was not seen before, in order
RECURSIVE unique_by_title(_, _)
unique_by_title(texts, seen_titles) ==
    IF texts = <<>> THEN <<>>
    ELSE LET title == Head(texts)[1]
         IN  IF title \in seen_titles
             THEN unique_by_title(Tail(texts), seen_titles)
             ELSE <<Head(texts)>> \o unique_by_title(Tail(texts), seen_titles \cup {title})

\* web_results of the merge loop over need_web
RECURSIVE multi_merge(_, _, _)
multi_merge(web_results, need_web, all_results) ==
    IF need_web = <<>> THEN web_results
    ELSE LET query == Head(need_web)
             text == IF \E i \in DOMAIN all_results : all_results[i].q = query
                     THEN LET i == CHOOSE k \in DOMAIN all_results :
                                       all_results[k].q = query
                          IN  Flatten(Take(unique_by_title(all_results[i].v, {}),
                                           multi_max_results))
                     ELSE MultiSentinel
         IN  multi_merge(DictSet(web_results, query, text), Tail(need_web), all_results)

\* the state the node returns once every future is collected
search_multi_source_return(state, m) ==
    IF state.need_websearch = <<>> THEN state
    ELSE [state EXCEPT !.naver_results = m.naver_results,
                       !.web_results = multi_merge(<<>>, state.need_websearch,
                                                   m.all_results)]

(***************************************************************************)
(* extract_sources_from_state                                              *)
(***************************************************************************)
Source(title, url, source_type, score) ==
    [title |-> title, url |-> url, source_type |-> source_type, score |-> score]

es_hits_per_query == 3

naver_score == 100      \* score=1.0

web_score == 90         \* score=0.9

\* the url of a web_results text: the first line holding a URL, stripped
first_url(lines) ==
    IF \E i \in DOMAIN lines : HasHttp(lines[i])
    THEN LET i == CHOOSE k \in DOMAIN lines :
                     HasHttp(lines[k]) /\ \A m \in 1..(k - 1) : ~HasHttp(lines[m])
         IN  LineText(Strip(lines[i]))
    ELSE ""

\* the Source built from one web_results text
web_source(result_text) ==
    Source(result_text[1], first_url(result_text), "web", web_score)

\* if result_text and result_text != "웹 검색 실패"
yields_source(result_text) == result_text # <<>> /\ result_text # FailSentinel

\* variant: seen_urls is never added to
RECURSIVE dedup_by_url_unseen(_, _)
dedup_by_url_unseen(sources, seen_urls) ==
    IF sources = <<>> THEN <<>>
    ELSE LET source == Head(sources)
         IN  IF source.url # "" /\ source.url \in seen_urls
             THEN dedup_by_url_unseen(Tail(sources), seen_urls)
             ELSE <<source>> \o dedup_by_url_unseen(Tail(sources), seen_urls)

\* drop every source whose non-empty url was seen before
RECURSIVE dedup_by_url(_, _)
dedup_by_url(sources, seen_urls) ==
    IF sources = <<>> THEN <<>>
    ELSE LET source == Head(sources)
         IN  IF source.url # "" /\ source.url \in seen_urls
             THEN dedup_by_url(Tail(sources), seen_urls)
             ELSE <<source>> \o
                  dedup_by_url(Tail(sources),
                               IF source.url # "" THEN seen_urls \cup {source.url}
                               ELSE seen_urls)

\* list.sort(key=score, reverse=True): stable, equal scores keep their order
RECURSIVE sort_by_score(_)
sort_by_score(sources) ==
    IF sources = <<>> THEN <<>>
    ELSE LET rest == sort_by_score(SubSeq(sources, 1, Len(sources) - 1))
             x == sources[Len(sources)]
             Before(y) == y.score >= x.score
             After(y) == y.score < x.score
         IN  SelectSeq(rest, Before) \o <<x>> \o SelectSeq(rest, After)

\* the candidate list before deduplication
candidate_sources(state, max_sources) ==
    LET queries_results == state.es_results.queries
        es == Flatten([i \in DOMAIN queries_results |->
                 LET hits == Take(queries_results[i].v, es_hits_per_query)
                 IN  [j \in DOMAIN hits |->
                        Source(Line(hits[j].title), hits[j].url, "internal_db",
                               hits[j].score)]])
        nv == Take(state.naver_results, max_sources)
        naver == [i \in DOMAIN nv |->
                    Source(Line(nv[i].title), nv[i].link, "naver", naver_score)]
        Yields(e) == yields_source(e.v)
        texts == SelectSeq(state.web_results, Yields)
        web == [i \in DOMAIN texts |-> web_source(texts[i].v)]
    IN  es \o naver \o web

\* variant: the cap is applied before the sort
extract_sources_capped_first(state, max_sources) ==
    sort_by_score(Take(dedup_by_url(candidate_sources(state, max_sources), {}),
                       max_sources))

extract_sources_from_state(state, max_sources) ==
    Take(sort_by_score(dedup_by_url(candidate_sources(state, max_sources), {})),
         max_sources)

(***************************************************************************)
(* build_context: context is the sequence of its blocks.                   *)
(***************************************************************************)
max_sources == 10

\* variant: the joined parts are taken as they are, without the sentinel
build_context_joined(state) ==
    LET queries_results == state.es_results.queries
        merged_context ==
            IF \E i \in DOMAIN queries_results : queries_results[i].v # <<>>
            THEN <<"ES_CONTEXT">> ELSE <<>>
        Yields(e) == yields_source(e.v)
        web_context ==
            IF state.web_results # <<>> \/ state.naver_results # <<>>
            THEN (IF state.naver_results # <<>> THEN <<"NAVER_NEWS">> ELSE <<>>)
                 \o [i \in DOMAIN SelectSeq(state.web_results, Yields) |-> "WEB_SEARCH"]
            ELSE <<>>
        context == web_context \o merged_context
        sources == extract_sources_from_state(state, max_sources)
    IN  [state EXCEPT !.sources = sources,
                      !.context = IF sources # <<>>
                                  THEN context \o <<"SOURCES_INFO">>
                                  ELSE context]

\* variant: the web block is appended after the internal block
build_context_internal_first(state) ==
    LET queries_results == state.es_results.queries
        merged_context ==
            IF \E i \in DOMAIN queries_results : queries_results[i].v # <<>>
            THEN <<"ES_CONTEXT">> ELSE <<>>
        Yields(e) == yields_source(e.v)
        web_context ==
            IF state.web_results # <<>> \/ state.naver_results # <<>>
            THEN (IF state.naver_results # <<>> THEN <<"NAVER_NEWS">> ELSE <<>>)
                 \o [i \in DOMAIN SelectSeq(state.web_results, Yields) |-> "WEB_SEARCH"]
            ELSE <<>>
        context_parts == merged_context \o web_context
        context == IF context_parts # <<>> THEN context_parts ELSE NoResultsContext
        sources == extract_sources_from_state(state, max_sources)
    IN  [state EXCEPT !.sources = sources,
                      !.context = IF sources # <<>>
                                  THEN context \o <<"SOURCES_INFO">>
                                  ELSE context]

build_context(state) ==
    LET queries_results == state.es_results.queries
        merged_context ==
            IF \E i \in DOMAIN queries_results : queries_results[i].v # <<>>
            THEN <<"ES_CONTEXT">> ELSE <<>>
        Yields(e) == yields_source(e.v)
        web_context ==
            IF state.web_results # <<>> \/ state.naver_results # <<>>
            THEN (IF state.naver_results # <<>> THEN <<"NAVER_NEWS">> ELSE <<>>)
                 \o [i \in DOMAIN SelectSeq(state.web_results, Yields) |-> "WEB_SEARCH"]
            ELSE <<>>
        context_parts == web_context \o merged_context
        context == IF context_parts # <<>> THEN context_parts ELSE NoResultsContext
        sources == extract_sources_from_state(state, max_sources)
    IN  [state EXCEPT !.sources = sources,
                      !.context = IF sources # <<>>
                                  THEN context \o <<"SOURCES_INFO">>
                                  ELSE context]

(***************************************************************************)
(* generate_answer                                                         *)
(***************************************************************************)
GenerationError == <<"GENERATION_ERROR">>   \* "답변 생성 중 오류가 발생했습니다: ..."

\* "참고 자료" not in answer and "출처" not in answer
has_citation_marker(answer) == "CITED" \in Range(answer)

\* format_sources_for_answer: "" without sources, else the block, which
\* itself starts with "참고 자료"
format_sources_for_answer(sources) ==
    IF sources = <<>> THEN <<>> ELSE <<"SOURCES_TEXT", "CITED">>

\* has_web_results = len(web_results) > 0, handed to get_generation_prompt
has_web_results(state) == Len(state.web_results) > 0

\* out is "raise" or the content of the response
\* variant: the source list is appended whatever the answer holds
generate_answer_always_append(state, out) ==
    LET sources == state.sources
        answer == IF sources # <<>>
                  THEN out.content \o format_sources_for_answer(sources)
                  ELSE out.content
    IN  [state EXCEPT !.answer =
            IF out.kind = "raise" THEN GenerationError ELSE answer]

\* variant: the stored sources are emptied once they have been cited
generate_answer_clear_sources(state, out) ==
    LET sources == state.sources
        answer == IF sources # <<>> /\ ~has_citation_marker(out.content)
                  THEN out.content \o format_sources_for_answer(sources)
                  ELSE out.content
    IN  [state EXCEPT !.answer =
                          IF out.kind = "raise" THEN GenerationError ELSE answer,
                      !.sources = IF out.kind = "raise" THEN @ ELSE <<>>]

generate_answer(state, out) ==
    LET sources == state.sources
        answer == IF sources # <<>> /\ ~has_citation_marker(out.content)
                  THEN out.content \o format_sources_for_answer(sources)
                  ELSE out.content
    IN  [state EXCEPT !.answer =
            IF out.kind = "raise" THEN GenerationError ELSE answer]

GenerationOutputs ==
    {[kind |-> "raise", content |-> <<>>]}
    \cup {[kind |-> "ok", content |-> c] : c \in LlmAnswers}

(***************************************************************************)
(* QueryCache.  self.cache is an insertion-ordered dict: a sequence of     *)
(* entries with distinct keys.  A dict handed to the cache (as context or  *)
(* as result) is [keys, body], body being AgentState-shaped.               *)
(***************************************************************************)
AgentStateKeys ==
    {"user_query", "chat_history", "query_analysis", "es_results",
     "is_relevant_enough", "relevance_score", "need_websearch",
     "naver_results", "web_results", "context", "sources", "answer"}

\* {"chat_history": chat_history}
chat_history_dict(chat_history) ==
    [keys |-> {"chat_history"}, body |-> initial_state("", chat_history)]

\* the result of graph.invoke as a dict; _make_result_serializable turns
\* the SearchResult objects into dicts and keeps every key and value
_make_result_serializable(result) == [keys |-> AgentStateKeys, body |-> result]

\* md5 of json.dumps({"query": query.lower().strip(), "context": context or {}},
\* sort_keys=True): equal for equal JSON texts.  The text of a context is
\* kept by its keys, its chat_history and its answer.
_generate_key(query, context) ==
    [query |-> LowerStrip(query),
     keys |-> context.keys,
     chat_history |-> IF "chat_history" \in context.keys
                      THEN context.body.chat_history ELSE "",
     answer |-> IF "answer" \in context.keys THEN context.body.answer ELSE <<>>]

HasKey(cache, key) == \E i \in DOMAIN cache : cache[i].key = key

IndexOf(cache, key) == CHOOSE i \in DOMAIN cache : cache[i].key = key

\* the entry of key in a cache that holds it
EntryOf(cache, key) == cache[IndexOf(cache, key)]

Remove(cache, i) == [j \in 1..(Len(cache) - 1) |-> IF j < i THEN cache[j] ELSE cache[j + 1]]

\* what the stored dict keeps of a result handed to set()
stored_result(result) ==
    [keys |-> result.keys, chat_history |-> result.body.chat_history,
     answer |-> result.body.answer]

NoneResult == [keys |-> {}, chat_history |-> "", answer |-> <<>>]

\* variant: a get that finds the entry expired counts nothing
cache_get_expired_uncounted(c, query, context, time) ==
    LET key == _generate_key(query, context)
    IN  IF ~HasKey(c.cache, key)
        THEN [c |-> [c EXCEPT !.misses = @ + 1], found |-> FALSE, result |-> NoneResult]
        ELSE LET i == IndexOf(c.cache, key)
                 cached_item == c.cache[i]
             IN  IF time - cached_item.timestamp > ttl
                 THEN [c |-> [c EXCEPT !.cache = Remove(@, i)],
                       found |-> FALSE, result |-> NoneResult]
                 ELSE [c |-> [c EXCEPT !.hits = @ + 1,
                                       !.cache[i].access_count = @ + 1,
                                       !.cache[i].last_accessed = time],
                       found |-> TRUE, result |-> cached_item.result]

\* variant: a hit also renews the timestamp of the entry
cache_get_sliding(c, query, context, time) ==
    LET key == _generate_key(query, context)
    IN  IF ~HasKey(c.cache, key)
        THEN [c |-> [c EXCEPT !.misses = @ + 1], found |-> FALSE, result |-> NoneResult]
        ELSE LET i == IndexOf(c.cache, key)
                 cached_item == c.cache[i]
             IN  IF time - cached_item.timestamp > ttl
                 THEN [c |-> [c EXCEPT !.cache = Remove(@, i), !.misses = @ + 1],
                       found |-> FALSE, result |-> NoneResult]
                 ELSE [c |-> [c EXCEPT !.hits = @ + 1,
                                       !.cache[i].access_count = @ + 1,
                                       !.cache[i].timestamp = time,
                                       !.cache[i].last_accessed = time],
                       found |-> TRUE, result |-> cached_item.result]

\* QueryCache.get on c = [cache, hits, misses]: the new c, whether an entry
\* is returned, and the entry's result
cache_get(c, query, context, time) ==
    LET key == _generate_key(query, context)
    IN  IF ~HasKey(c.cache, key)
        THEN [c |-> [c EXCEPT !.misses = @ + 1], found |-> FALSE, result |-> NoneResult]
        ELSE LET i == IndexOf(c.cache, key)
                 cached_item == c.cache[i]
             IN  IF time - cached_item.timestamp > ttl
                 THEN [c |-> [c EXCEPT !.cache = Remove(@, i), !.misses = @ + 1],
                       found |-> FALSE, result |-> NoneResult]
                 ELSE [c |-> [c EXCEPT !.hits = @ + 1,
                                       !.cache[i].access_count = @ + 1,
                                       !.cache[i].last_accessed = time],
                       found |-> TRUE, result |-> cached_item.result]

\* variant: the oldest by timestamp, the time of the set
oldest_index_by_timestamp(cache) ==
    CHOOSE i \in DOMAIN cache :
        /\ \A j \in DOMAIN cache : cache[i].timestamp <= cache[j].timestamp
        /\ \A j \in 1..(i - 1) : cache[j].timestamp > cache[i].timestamp

\* min(self.cache.keys(), key=last_accessed): the first of the oldest
oldest_index(cache) ==
    CHOOSE i \in DOMAIN cache :
        /\ \A j \in DOMAIN cache : cache[i].last_accessed <= cache[j].last_accessed
        /\ \A j \in 1..(i - 1) : cache[j].last_accessed > cache[i].last_accessed

\* variant: the oldest entry goes only when the cache is over max_size
cache_set_over(c, query, result, context, time) ==
    LET key == _generate_key(query, context)
        kept == IF Len(c.cache) > max_size
                THEN Remove(c.cache, oldest_index(c.cache))
                ELSE c.cache
        entry == [key |-> key, result |-> stored_result(result), timestamp |-> time,
                  last_accessed |-> time, access_count |-> 1, query |-> query]
    IN  [c EXCEPT !.cache =
            IF HasKey(kept, key)
            THEN [kept EXCEPT ![IndexOf(kept, key)] = entry]
            ELSE Append(kept, entry)]

\* QueryCache.set(query, result, context)
cache_set(c, query, result, context, time) ==
    LET key == _generate_key(query, context)
        kept == IF Len(c.cache) >= max_size
                THEN Remove(c.cache, oldest_index(c.cache))
                ELSE c.cache
        entry == [key |-> key, result |-> stored_result(result), timestamp |-> time,
                  last_accessed |-> time, access_count |-> 1, query |-> query]
    IN  [c EXCEPT !.cache =
            IF HasKey(kept, key)
            THEN [kept EXCEPT ![IndexOf(kept, key)] = entry]
            ELSE Append(kept, entry)]

\* QueryCache.clear
cache_clear(c) == [cache |-> <<>>, hits |-> 0, misses |-> 0]

\* QueryCache.remove_expired
cache_remove_expired(c, time) ==
    LET Live(e) == ~(time - e.timestamp > ttl)
    IN  [c EXCEPT !.cache = SelectSeq(@, Live)]

(***************************************************************************)
(* The state of the program.                                               *)
(***************************************************************************)
VARIABLES
    pc,              \* where run_query is: "idle", a graph node, "store", "done"
    inp,             \* the arguments of the current run_query call
    state,           \* the AgentState threaded through the graph
    loc,             \* locals of search_naver: loop position and results so far
    trace,           \* graph nodes executed by the current graph.invoke
    calls,           \* external provider calls made by the current run
    qc,              \* the global QueryCache: [cache, hits, misses]
    now,             \* time.time()
    ret,             \* what the last run_query call returned (or raised)
    invokes,         \* number of graph.invoke calls so far
    runs,            \* the finished run_query calls, oldest first
    op,              \* the last direct call of the QueryCache API and its outcome
    th,              \* the threads inside a QueryCache method: position and locals
    app,             \* app.py: the module's flags and the last /query response
    ms,              \* locals of search_multi_source: futures done, results collected
    ext,             \* the last direct call of extract_sources_from_state
    rs               \* the last evaluation of the average score on its own

vars == <<pc, inp, state, loc, trace, calls, qc, now, ret, invokes, runs, op, th, app, ms, ext, rs>>

NoCache == [cache |-> <<>>, hits |-> 0, misses |-> 0]

NoKey == [query |-> "", keys |-> {}, chat_history |-> "", answer |-> <<>>]

MaxOps == 4           \* direct API calls in one behaviour

ApiQueries == {"ai", "AI ", "kr"}

\* context=None (taken as {}) and {"chat_history": [u1]}
ApiContexts == {[keys |-> {}, body |-> initial_state("", "")], chat_history_dict("[u1]")}

\* the (query, context) arguments of the calls: three keys, one of them
\* reached by two spellings of the query
ApiArgs ==
    {a \in ApiQueries \X ApiContexts : a[1] = "kr" => a[2].keys = {}}

ApiKeys == {_generate_key(a[1], a[2]) : a \in ApiArgs}

\* op.before is the cache before the call, op.gets and op.hit_gets the number
\* of get calls and of hits since the construction or the last clear,
\* op.set_at[k] and op.acc_at[k] the time of the last set of key k and of
\* its last set or hit (-1: never)
NoOp == [name |-> "none", key |-> NoKey, found |-> FALSE, result |-> NoneResult,
         before |-> NoCache, time |-> 0, gets |-> 0, hit_gets |-> 0, n |-> 0,
         set_at |-> [k \in ApiKeys |-> -1], acc_at |-> [k \in ApiKeys |-> -1]]

Threads == {1, 2}

\* a thread inside get or set: pc is the statement it is about to execute,
\* ts the timestamp of the entry cached_item refers to, orphan whether that
\* entry has left the dict since, tmp the counter value read by +=, failed
\* the exception that ended its call
NoThread ==
    [pc |-> "idle", key |-> NoKey, query |-> "", result |-> NoneResult,
     oldest_key |-> NoKey, ts |-> 0, orphan |-> FALSE, tmp |-> 0, failed |-> ""]

NoResponse == [kind |-> "none", method |-> "", answer |-> <<>>]

\* app.py before its imports run: both flags False, _graph and _agent None;
\* path is the way the last response was produced, n the requests handled
NoApp ==
    [imported |-> FALSE, INTEGRATED_AGENT_AVAILABLE |-> FALSE, AGENT_AVAILABLE |-> FALSE,
     graph |-> FALSE, agent |-> FALSE, response |-> NoResponse, path |-> "", n |-> 0]

\* search_multi_source before its futures are submitted: done is the set of
\* futures collected so far (future 2i-1 is the Naver call, 2i the
\* DuckDuckGo call for need_web[i])
\* arrived: what each collected future returned, in the order of collection
NoMulti == [done |-> {}, all_results |-> <<>>, naver_results |-> <<>>,
            arrived |-> <<>>]

\* no call of extract_sources_from_state yet
NoSources == [max_sources |-> 0, sources |-> <<>>]

\* the average score not evaluated yet
NoScore == [called |-> FALSE, queries_results |-> <<>>, relevance_score |-> 0]

NoInput == [user_query |-> "", chat_history |-> "", use_cache |-> FALSE]

NoLoc == [i |-> 1, phase |-> "naver", web_results |-> <<>>, naver_results |-> <<>>]

NoReturn == [kind |-> "none", keys |-> {}, error |-> "", body |-> initial_state("", "")]

\* the dict of the except branch of run_query for the exception e
error_result(e) ==
    [kind |-> "error",
     error |-> e,
     keys |-> {"answer", "error", "query_analysis", "es_results", "naver_results",
               "is_relevant_enough", "relevance_score"},
     body |-> [initial_state("", "") EXCEPT
                  !.answer = <<"RUN_ERROR">>,      \* f"오류 발생: {str(e)}"
                  !.es_results = [keys |-> {"total"}, queries |-> <<>>, total |-> 0]]]

\* an exception that leaves run_query
raised_result(e) == [kind |-> "raised", keys |-> {}, error |-> e, body |-> initial_state("", "")]

\* return cached_result
cached_return(result) ==
    [kind |-> "cached", keys |-> result.keys, error |-> "",
     body |-> [initial_state("", result.chat_history) EXCEPT !.answer = result.answer]]

\* return result
normal_return(result) ==
    [kind |-> "result", keys |-> AgentStateKeys, error |-> "", body |-> result]

Init ==
    /\ pc = "idle"
    /\ inp = NoInput
    /\ state = initial_state("", "")
    /\ loc = NoLoc
    /\ trace = <<>>
    /\ calls = <<>>
    /\ qc = NoCache
    /\ now = 0
    /\ ret = NoReturn
    /\ invokes = 0
    /\ runs = <<>>
    /\ op = NoOp
    /\ th = [t \in Threads |-> NoThread]
    /\ app = NoApp
    /\ ms = NoMulti
    /\ ext = NoSources
    /\ rs = NoScore

(***************************************************************************)
(* run_query, up to graph.invoke: logger, cache lookup, initial state.     *)
(*   logger_ok: get_logger() returns (AgentLogger() can create its log     *)
(*   directory and file, or the logger exists already).                    *)
(***************************************************************************)
\* the outcome of lines 278-330 on the cache c at the given time: [kind, qc, ret]
run_query_enter(c, time, user_query, chat_history, use_cache, enable_logging, logger_ok) ==
    LET got == cache_get(c, user_query, chat_history_dict(chat_history), time)
    IN  IF enable_logging /\ ~logger_ok
        THEN [kind |-> "raised", qc |-> c, ret |-> raised_result("OSError")]
        ELSE IF use_cache /\ got.found /\ got.result.keys # {}
        THEN [kind |-> "cached", qc |-> got.c, ret |-> cached_return(got.result)]
        ELSE [kind |-> "invoke", qc |-> IF use_cache THEN got.c ELSE c,
              ret |-> NoReturn]

\* if chat_history is None: chat_history = []
history_or_empty(chat_history) == IF chat_history = "None" THEN "[]" ELSE chat_history

Start(user_query, chat_history, use_cache, enable_logging, logger_ok) ==
    /\ pc = "idle"
    /\ LET e == run_query_enter(qc, now, user_query, chat_history, use_cache,
                                enable_logging, logger_ok)
       IN  /\ qc' = e.qc
           /\ ret' = e.ret
           /\ pc' = IF e.kind = "invoke" THEN "query_analysis" ELSE "done"
           /\ invokes' = IF e.kind = "invoke" THEN invokes + 1 ELSE invokes
    /\ inp' = [user_query |-> user_query, chat_history |-> chat_history,
               use_cache |-> use_cache]
    /\ state' = initial_state(user_query, history_or_empty(chat_history))
    /\ loc' = NoLoc
    /\ trace' = <<>>
    /\ calls' = <<>>
    /\ UNCHANGED <<now, runs, op, th, app, ms, ext, rs>>

(***************************************************************************)
(* The graph nodes.                                                        *)
(***************************************************************************)
QueryAnalysis(out) ==
    /\ pc = "query_analysis"
    /\ state' = analyze_query(state, out)
    /\ trace' = Append(trace, "query_analysis")
    /\ pc' = "internal_db_search"
    /\ UNCHANGED <<inp, loc, calls, qc, now, ret, invokes, runs, op, th, app, ms, ext, rs>>

\* every answer of the store for the sub-queries of the state
Indexes(st) == [Range(sub_queries_of(st)) -> HitLists]

NoIndex == [q \in {} |-> <<>>]

InternalDbSearch(kind, index) ==
    /\ pc = "internal_db_search"
    /\ IF kind = "ok" THEN index \in Indexes(state) ELSE index = NoIndex
    /\ state' = search_internal_db(state, [kind |-> kind, index |-> index])
    /\ trace' = Append(trace, "internal_db_search")
    /\ pc' = "relevance_check"
    /\ UNCHANGED <<inp, loc, calls, qc, now, ret, invokes, runs, op, th, app, ms, ext, rs>>

\* every way the judge model can answer for the searched sub-queries
Judges(st) == [Range(DictKeys(st.es_results.queries)) -> JudgeResponses]

RelevanceCheck(judge) ==
    /\ pc = "relevance_check"
    /\ state' = check_relevance(state, judge)
    /\ trace' = Append(trace, "relevance_check")
    /\ pc' = should_search_naver(state')
    /\ loc' = NoLoc
    /\ UNCHANGED <<inp, calls, qc, now, ret, invokes, runs, op, th, app, ms, ext, rs>>

\* client.search(query=q, num_results=5, provider="naver") for need_web[i]
\* variant: a failed Naver call is made again before the fallback
CallNaverRetry(ok, results) ==
    /\ pc = "naver_search"
    /\ loc.i <= Len(state.need_websearch)
    /\ loc.phase = "naver"
    /\ LET q == state.need_websearch[loc.i]
           failed == \E k \in DOMAIN calls : calls[k].i = loc.i /\ ~calls[k].ok
       IN  /\ calls' = Append(calls, [i |-> loc.i, q |-> q, provider |-> "naver", ok |-> ok])
           /\ loc' = IF ok
                     THEN [naver_ok(loc, q, results) EXCEPT !.i = @ + 1]
                     ELSE IF failed THEN [loc EXCEPT !.phase = "ddg"] ELSE loc
    /\ UNCHANGED <<pc, inp, state, trace, qc, now, ret, invokes, runs, op, th, app, ms, ext, rs>>

CallNaver(ok, results) ==
    /\ pc = "naver_search"
    /\ loc.i <= Len(state.need_websearch)
    /\ loc.phase = "naver"
    /\ LET q == state.need_websearch[loc.i]
       IN  /\ calls' = Append(calls, [i |-> loc.i, q |-> q, provider |-> "naver", ok |-> ok])
           /\ loc' = IF ok
                     THEN [naver_ok(loc, q, results) EXCEPT !.i = @ + 1]
                     ELSE [loc EXCEPT !.phase = "ddg"]
    /\ UNCHANGED <<pc, inp, state, trace, qc, now, ret, invokes, runs, op, th, app, ms, ext, rs>>

\* DuckDuckGoSearchRun().run(q), in the except branch of the Naver call
CallDdg(ok, result) ==
    /\ pc = "naver_search"
    /\ loc.i <= Len(state.need_websearch)
    /\ loc.phase = "ddg"
    /\ LET q == state.need_websearch[loc.i]
       IN  /\ calls' = Append(calls, [i |-> loc.i, q |-> q, provider |-> "duckduckgo",
                                      ok |-> ok])
           /\ loc' = [(IF ok THEN ddg_ok(loc, q, result) ELSE ddg_failed(loc, q))
                         EXCEPT !.i = @ + 1, !.phase = "naver"]
    /\ UNCHANGED <<pc, inp, state, trace, qc, now, ret, invokes, runs, op, th, app, ms, ext, rs>>

\* variant: the edge out of naver_search leads back to relevance_check
NaverSearchReturnToCheck ==
    /\ pc = "naver_search"
    /\ loc.i > Len(state.need_websearch)
    /\ state' = [state EXCEPT !.naver_results = loc.naver_results,
                              !.web_results = loc.web_results]
    /\ trace' = Append(trace, "naver_search")
    /\ pc' = "relevance_check"
    /\ UNCHANGED <<inp, loc, calls, qc, now, ret, invokes, runs, op, th, app, ms, ext, rs>>

\* the end of search_naver (at once when need_websearch is empty)
NaverSearchReturn ==
    /\ pc = "naver_search"
    /\ loc.i > Len(state.need_websearch)
    /\ state' = [state EXCEPT !.naver_results = loc.naver_results,
                              !.web_results = loc.web_results]
    /\ trace' = Append(trace, "naver_search")
    /\ pc' = "build_context"
    /\ UNCHANGED <<inp, loc, calls, qc, now, ret, invokes, runs, op, th, app, ms, ext, rs>>

BuildContext ==
    /\ pc = "build_context"
    /\ state' = build_context(state)
    /\ trace' = Append(trace, "build_context")
    /\ pc' = "generation"
    /\ UNCHANGED <<inp, loc, calls, qc, now, ret, invokes, runs, op, th, app, ms, ext, rs>>

Generation(out) ==
    /\ pc = "generation"
    /\ state' = generate_answer(state, out)
    /\ trace' = Append(trace, "generation")
    /\ pc' = "store"
    /\ UNCHANGED <<inp, loc, calls, qc, now, ret, invokes, runs, op, th, app, ms, ext, rs>>

(***************************************************************************)
(* run_query after graph.invoke: store in the cache and return, or the     *)
(* except branch.  store_ok: json.dumps in _generate_key accepts what it   *)
(* is given.                                                               *)
(***************************************************************************)
\* [qc, ret] of lines 336-396 for the result of graph.invoke, on the cache c
run_query_leave(c, time, use_cache, user_query, chat_history, result, store_ok) ==
    IF use_cache /\ ~store_ok
    THEN [qc |-> c, ret |-> error_result("TypeError")]
    ELSE [qc |-> IF use_cache
                 THEN cache_set(c, user_query, chat_history_dict(chat_history),
                                _make_result_serializable(result), time)
                 ELSE c,
          ret |-> normal_return(result)]

Finish(store_ok) ==
    /\ pc = "store"
    /\ LET l == run_query_leave(qc, now, inp.use_cache, inp.user_query,
                                history_or_empty(inp.chat_history), state, store_ok)
       IN  qc' = l.qc /\ ret' = l.ret
    /\ pc' = "done"
    /\ UNCHANGED <<inp, state, loc, trace, calls, now, invokes, runs, op, th, app, ms, ext, rs>>

Next ==
    \/ \E q \in PipelineQueries, h \in PipelineHistories, uc \in BOOLEAN, el \in BOOLEAN,
          lo \in BOOLEAN : Start(q, h, uc, el, lo)
    \/ \E out \in AnalysisOutputs : QueryAnalysis(out)
    \/ \E kind \in {"none", "raise", "ok"}, index \in Indexes(state) \cup {NoIndex} :
          InternalDbSearch(kind, index)
    \/ \E judge \in Judges(state) : RelevanceCheck(judge)
    \/ \E ok \in BOOLEAN, results \in NaverLists : CallNaver(ok, results)
    \/ \E ok \in BOOLEAN, result \in DdgTexts : CallDdg(ok, result)
    \/ NaverSearchReturn
    \/ BuildContext
    \/ \E out \in GenerationOutputs : Generation(out)
    \/ \E store_ok \in BOOLEAN : Finish(store_ok)

Spec == Init /\ [][Next]_vars

\* the steps of a run that wait for nothing unbounded: the internal search
\* (Elasticsearch(request_timeout=5)), the end of search_naver, build_context
\* and the return of run_query.  llm.invoke, client.search and ddg.run are
\* called without a timeout, so nothing makes the other steps happen.
LocalStep ==
    \/ \E kind \in {"none", "raise", "ok"}, index \in Indexes(state) \cup {NoIndex} :
          InternalDbSearch(kind, index)
    \/ NaverSearchReturn
    \/ BuildContext
    \/ \E store_ok \in BOOLEAN : Finish(store_ok)

SpecLive == Init /\ [][Next]_vars /\ WF_vars(LocalStep)

(***************************************************************************)
(* Several run_query calls on the shared cache, each call one step.        *)
(* graph.invoke is the composition of the nodes along the compiled edges;  *)
(* env says what each collaborator answers in the call.                    *)
(***************************************************************************)
graph_invoke(state0, env) ==
    LET s1 == analyze_query(state0, env.analysis)
        s2 == search_internal_db(s1,
                  [kind |-> env.es,
                   index |-> [q \in Range(sub_queries_of(s1)) |-> env.hits]])
        s3 == check_relevance(s2,
                  [q \in Range(DictKeys(s2.es_results.queries)) |-> env.judge])
        s4 == IF should_search_naver(s3) = "naver_search"
              THEN search_naver(s3, [i \in DOMAIN s3.need_websearch |-> env.provider])
              ELSE s3
    IN  generate_answer(build_context(s4), env.generation)

\* the collaborators of the multi-run specification
Environments ==
    [analysis : {o \in AnalysisOutputs : o.kind = "raise"},
     es : {"ok"},
     hits : {h \in HitLists : Len(h) = 1 /\ h[1].url # ""},
     judge : {"db"},
     provider : {[naver |-> FALSE, results |-> <<>>, ddg |-> FALSE, result |-> <<>>]},
     generation : {o \in GenerationOutputs : o.content \in {<<>>, <<"ans">>}}]

\* what a finished call leaves in runs
run_record(user_query, chat_history, use_cache, r, time) ==
    [user_query |-> user_query, chat_history |-> chat_history,
     use_cache |-> use_cache, kind |-> r.kind, keys |-> r.keys,
     answer |-> r.body.answer, time |-> time]

RunQuery(user_query, chat_history, use_cache, env, store_ok) ==
    /\ pc = "idle"
    /\ Len(runs) < MaxRuns
    /\ LET e == run_query_enter(qc, now, user_query, chat_history, use_cache, TRUE, TRUE)
           result == graph_invoke(
                         initial_state(user_query, history_or_empty(chat_history)), env)
           l == run_query_leave(e.qc, now, use_cache, user_query,
                                history_or_empty(chat_history), result, store_ok)
           r == IF e.kind = "invoke" THEN l.ret ELSE e.ret
       IN  /\ qc' = IF e.kind = "invoke" THEN l.qc ELSE e.qc
           /\ ret' = r
           /\ invokes' = IF e.kind = "invoke" THEN invokes + 1 ELSE invokes
           /\ runs' = Append(runs, run_record(user_query, chat_history, use_cache, r, now))
    /\ UNCHANGED <<pc, inp, state, loc, trace, calls, now, op, th, app, ms, ext, rs>>

Tick ==
    /\ pc = "idle"
    /\ now < MaxTime
    /\ now' = now + 1
    /\ UNCHANGED <<pc, inp, state, loc, trace, calls, qc, ret, invokes, runs, op, th, app, ms, ext, rs>>

NextRuns ==
    \/ \E q \in CacheQueries, h \in ChatHistories, uc \in BOOLEAN,
          env \in Environments, store_ok \in BOOLEAN : RunQuery(q, h, uc, env, store_ok)
    \/ Tick

SpecRuns == Init /\ [][NextRuns]_vars

(***************************************************************************)
(* app.py: the imports at module load and the /query endpoint.             *)
(***************************************************************************)
HttpError(status) == [kind |-> status, method |-> "", answer |-> <<>>]

\* the two guarded imports at the top of app.py
ImportApp(integrated_ok, agent_ok) ==
    /\ ~app.imported
    /\ app' = [app EXCEPT !.imported = TRUE,
                          !.INTEGRATED_AGENT_AVAILABLE = integrated_ok,
                          !.AGENT_AVAILABLE = ~integrated_ok /\ agent_ok]
    /\ UNCHANGED <<pc, inp, state, loc, trace, calls, qc, now, ret, invokes, runs, op, th, ms, ext, rs>>

\* process_query, integrated branch: get_integrated_agent, run_query with its
\* defaults (use_cache, enable_logging), method = "integrated_rag"
ProcessQueryIntegrated(query, chat_history, graph_ok, logger_ok, env, store_ok) ==
    /\ pc = "idle"
    /\ app.imported /\ app.INTEGRATED_AGENT_AVAILABLE
    /\ app.n < MaxRuns
    /\ IF ~(app.graph \/ graph_ok)
       THEN /\ app' = [app EXCEPT !.response = HttpError("http_503"), !.path = "",
                                  !.n = @ + 1]
            /\ UNCHANGED <<qc, ret, invokes>>
       ELSE LET e == run_query_enter(qc, now, query, chat_history, TRUE, TRUE, logger_ok)
                result == graph_invoke(
                              initial_state(query, history_or_empty(chat_history)), env)
                l == run_query_leave(e.qc, now, TRUE, query,
                                     history_or_empty(chat_history), result, store_ok)
                r == IF e.kind = "invoke" THEN l.ret ELSE e.ret
            IN  /\ qc' = IF e.kind = "invoke" THEN l.qc ELSE e.qc
                /\ ret' = r
                /\ invokes' = IF e.kind = "invoke" THEN invokes + 1 ELSE invokes
                /\ app' = [app EXCEPT
                       !.graph = TRUE,
                       !.n = @ + 1,
                       !.path = IF r.kind = "raised" THEN ""
                                ELSE IF e.kind = "cached" THEN "cache" ELSE "pipeline",
                       !.response =
                           IF r.kind = "raised" THEN HttpError("http_500")
                           ELSE [kind |-> "ok", method |-> "integrated_rag",
                                 answer |-> IF "answer" \in r.keys THEN r.body.answer
                                            ELSE <<"NO_ANSWER">>]]
    /\ UNCHANGED <<pc, inp, state, loc, trace, calls, now, runs, op, th, ms, ext, rs>>

\* process_query, fallback branch: get_agent, agent.run, method from the
\* keyword test on the query
ProcessQuerySimple(query, agent_ok, llm_ok) ==
    /\ pc = "idle"
    /\ app.imported /\ ~app.INTEGRATED_AGENT_AVAILABLE
    /\ app.n < MaxRuns
    /\ IF ~app.AGENT_AVAILABLE \/ ~(app.agent \/ agent_ok)
       THEN app' = [app EXCEPT !.response = HttpError("http_503"), !.path = "",
                               !.n = @ + 1]
       ELSE LET a == agent_run(query, llm_ok)
            IN  app' = [app EXCEPT
                    !.agent = TRUE,
                    !.n = @ + 1,
                    !.path = a.branch,
                    !.response = [kind |-> "ok", method |-> fallback_method(query),
                                  answer |-> a.answer]]
    /\ UNCHANGED <<pc, inp, state, loc, trace, calls, qc, now, ret, invokes, runs, op, th, ms, ext, rs>>

NextApp ==
    \/ \E integrated_ok \in BOOLEAN, agent_ok \in BOOLEAN : ImportApp(integrated_ok, agent_ok)
    \/ \E q \in CacheQueries, h \in ChatHistories, graph_ok \in BOOLEAN,
          logger_ok \in BOOLEAN, env \in Environments, store_ok \in BOOLEAN :
            ProcessQueryIntegrated(q, h, graph_ok, logger_ok, env, store_ok)
    \/ \E q \in AgentQueries, agent_ok \in BOOLEAN, llm_ok \in BOOLEAN :
            ProcessQuerySimple(q, agent_ok, llm_ok)
    \/ Tick

SpecApp == Init /\ [][NextApp]_vars

(***************************************************************************)
(* search_multi_source on a state that relevance_check left, followed by   *)
(* build_context on the state it returns.                                  *)
(***************************************************************************)
Futures(st) == 1..(2 * Len(st.need_websearch))

\* the node is entered with need_websearch set
MultiStart(need_web) ==
    /\ pc = "idle"
    /\ state' = [initial_state("ai", "[]") EXCEPT !.need_websearch = need_web,
                                                  !.is_relevant_enough = FALSE]
    /\ ms' = NoMulti
    /\ calls' = <<>>
    /\ trace' = <<>>
    /\ pc' = "multi_source_search"
    /\ UNCHANGED <<inp, loc, qc, now, ret, invokes, runs, op, th, app, ext, rs>>

\* a future completes and the as_completed loop collects it: futures
\* complete in any order
MultiCollect(f, ok, naver_result, ddg_result) ==
    /\ pc = "multi_source_search"
    /\ f \in Futures(state) \ ms.done
    /\ LET i == (f + 1) \div 2
           query == state.need_websearch[i]
           source_type == IF f % 2 = 1 THEN "naver" ELSE "duckduckgo"
           result == IF source_type = "naver" THEN naver_result ELSE ddg_result
       IN  /\ ms' = [multi_collect(ms, source_type, query, ok, result)
                        EXCEPT !.done = @ \cup {f},
                               !.arrived = Append(@,
                                   [f |-> f, ok |-> ok,
                                    naver |-> IF ok /\ source_type = "naver"
                                              THEN naver_result ELSE <<>>,
                                    ddg |-> IF ok /\ source_type = "duckduckgo"
                                            THEN ddg_result ELSE <<>>])]
           /\ calls' = Append(calls, [i |-> i, q |-> query, provider |-> source_type,
                                      ok |-> ok])
    /\ UNCHANGED <<pc, inp, state, loc, trace, qc, now, ret, invokes, runs, op, th, app, ext, rs>>

\* the merge loop and the return, once the pool has been drained
MultiReturn ==
    /\ pc = "multi_source_search"
    /\ ms.done = Futures(state)
    /\ state' = search_multi_source_return(state, ms)
    /\ trace' = Append(trace, "multi_source_search")
    /\ pc' = "build_context"
    /\ UNCHANGED <<inp, loc, calls, qc, now, ret, invokes, runs, op, th, app, ms, ext, rs>>

NextMulti ==
    \/ \E need_web \in SubQuerySeqs : MultiStart(need_web)
    \/ \E f \in Futures(state), ok \in BOOLEAN, naver_result \in NaverLists,
          ddg_result \in DdgTexts \cup {<<>>} :
            MultiCollect(f, ok, naver_result, ddg_result)
    \/ MultiReturn
    \/ BuildContext

SpecMulti == Init /\ [][NextMulti]_vars

(***************************************************************************)
(* extract_sources_from_state called on a state and a max_sources of the   *)
(* caller's choice.                                                        *)
(***************************************************************************)
MaxCap == 3             \* largest max_sources passed in a direct call

\* es_results["queries"] as search_internal_db can leave it
SourceQueries ==
    UNION {{search_multiple_queries(sq, index) : index \in [Range(sq) -> HitLists]}
              : sq \in SubQuerySeqs}

\* a web_results text: of DuckDuckGo, of Naver, or the failure marker
WebTexts == DdgTexts \cup {FailSentinel} \cup {naver_text(r) : r \in NaverLists}

\* web_results over the sub-queries, in insertion order
SourceWebResults ==
    {<<>>} \cup {<<[q |-> "s1", v |-> v]>> : v \in WebTexts}
           \cup {<<[q |-> "s1", v |-> v], [q |-> "s2", v |-> w]>> :
                     v \in WebTexts, w \in {FailSentinel} \cup DdgTexts}

\* one call in a behaviour
ExtractSources(queries, naver_results, web_results, k) ==
    /\ pc = "idle"
    /\ ext = NoSources
    /\ state' = [initial_state("ai", "[]") EXCEPT
                    !.es_results = [keys |-> {"queries", "total"}, queries |-> queries,
                                    total |-> SumSeq([i \in DOMAIN queries |->
                                                         Len(queries[i].v)])],
                    !.naver_results = naver_results,
                    !.web_results = web_results]
    /\ ext' = [max_sources |-> k, sources |-> extract_sources_from_state(state', k)]
    /\ UNCHANGED <<pc, inp, loc, trace, calls, qc, now, ret, invokes, runs, op, th, app, ms, rs>>

NextSources ==
    /\ ext = NoSources
    /\ \E queries \in SourceQueries, naver_results \in SeqsUpTo(NaverPool, MaxNaver),
          web_results \in SourceWebResults, k \in 1..MaxCap :
           ExtractSources(queries, naver_results, web_results, k)

SpecSources == Init /\ [][NextSources]_vars

(***************************************************************************)
(* The average score evaluated on its own, for the scores of up to         *)
(* MaxScored sub-queries.                                                  *)
(***************************************************************************)
\* the hits of one sub-query: none, or one with its _score
ScoredHits == {<<>>} \cup {<<v>> : v \in ScoreValues}

\* one evaluation in a behaviour
ScoreRelevance(queries_results, compensated) ==
    /\ pc = "idle"
    /\ rs = NoScore
    /\ rs' = [called |-> TRUE, queries_results |-> queries_results,
              relevance_score |-> relevance_score_of(queries_results, compensated)]
    /\ UNCHANGED <<pc, inp, state, loc, trace, calls, qc, now, ret, invokes, runs, op, th, app, ms, ext>>

NextScore ==
    /\ rs = NoScore
    /\ \E queries_results \in SeqsUpTo(ScoredHits, MaxScored), compensated \in BOOLEAN :
           ScoreRelevance(queries_results, compensated)

SpecScore == Init /\ [][NextScore]_vars

(***************************************************************************)
(* The QueryCache API called directly: get, set, clear, remove_expired on  *)
(* one cache, in any order, while the clock advances.  op records the last *)
(* call.                                                                   *)
(***************************************************************************)
ApiResults ==
    {_make_result_serializable([initial_state("ai", "[]") EXCEPT !.answer = <<"ans">>])}

CacheGet(query, context) ==
    /\ pc = "idle" /\ op.n < MaxOps
    /\ LET g == cache_get(qc, query, context, now)
           key == _generate_key(query, context)
       IN  /\ qc' = g.c
           /\ op' = [op EXCEPT !.name = "get", !.key = key, !.found = g.found,
                               !.result = g.result, !.before = qc, !.time = now,
                               !.gets = @ + 1,
                               !.hit_gets = IF g.found THEN @ + 1 ELSE @,
                               !.n = @ + 1,
                               !.acc_at = IF g.found THEN [@ EXCEPT ![key] = now] ELSE @]
    /\ UNCHANGED <<pc, inp, state, loc, trace, calls, now, ret, invokes, runs, th, app, ms, ext, rs>>

CacheSet(query, result, context) ==
    /\ pc = "idle" /\ op.n < MaxOps
    /\ LET key == _generate_key(query, context)
       IN  /\ qc' = cache_set(qc, query, result, context, now)
           /\ op' = [op EXCEPT !.name = "set", !.key = key, !.found = FALSE,
                               !.result = stored_result(result), !.before = qc,
                               !.time = now, !.n = @ + 1,
                               !.set_at = [@ EXCEPT ![key] = now],
                               !.acc_at = [@ EXCEPT ![key] = now]]
    /\ UNCHANGED <<pc, inp, state, loc, trace, calls, now, ret, invokes, runs, th, app, ms, ext, rs>>

CacheClear ==
    /\ pc = "idle" /\ op.n < MaxOps
    /\ qc' = cache_clear(qc)
    /\ op' = [op EXCEPT !.name = "clear", !.key = NoKey, !.found = FALSE,
                        !.result = NoneResult, !.before = qc, !.time = now,
                        !.gets = 0, !.hit_gets = 0, !.n = @ + 1]
    /\ UNCHANGED <<pc, inp, state, loc, trace, calls, now, ret, invokes, runs, th, app, ms, ext, rs>>

CacheRemoveExpired ==
    /\ pc = "idle" /\ op.n < MaxOps
    /\ qc' = cache_remove_expired(qc, now)
    /\ op' = [op EXCEPT !.name = "remove_expired", !.key = NoKey, !.found = FALSE,
                        !.result = NoneResult, !.before = qc, !.time = now,
                        !.n = @ + 1]
    /\ UNCHANGED <<pc, inp, state, loc, trace, calls, now, ret, invokes, runs, th, app, ms, ext, rs>>

NextCache ==
    \/ \E a \in ApiArgs : CacheGet(a[1], a[2])
    \/ \E a \in ApiArgs, r \in ApiResults : CacheSet(a[1], r, a[2])
    \/ CacheClear
    \/ CacheRemoveExpired
    \/ Tick

SpecCache == Init /\ [][NextCache]_vars

(***************************************************************************)
(* get and set called on the shared cache by threads, statement by         *)
(* statement: QueryCache takes no lock, so the statements of two calls     *)
(* interleave freely.                                                      *)
(***************************************************************************)
\* the entry under key leaves the dict: the threads holding it as
\* cached_item keep the object, which the dict no longer shows
Orphaned(threads, t, key) ==
    [u \in Threads |->
        IF u # t /\ threads[u].key = key /\ threads[u].pc \in {"ttl", "hit", "hit_w", "touch"}
        THEN [threads[u] EXCEPT !.orphan = TRUE]
        ELSE threads[u]]

\* the arguments of the threads' calls: one spelling per key
ThreadArgs == {a \in ApiArgs : a[1] # "AI "}

CanCall(t) == pc = "idle" /\ th[t].pc = "idle" /\ th[t].failed = "" /\ op.n < MaxOps

\* get: key = ...; if key not in self.cache ...; cached_item = self.cache[key]
GetBegin(t, query, context) ==
    /\ CanCall(t)
    /\ LET key == _generate_key(query, context)
       IN  th' = [th EXCEPT ![t] =
                    IF HasKey(qc.cache, key)
                    THEN [NoThread EXCEPT !.pc = "ttl", !.key = key, !.query = query,
                                          !.ts = EntryOf(qc.cache, key).timestamp]
                    ELSE [NoThread EXCEPT !.pc = "miss", !.key = key, !.query = query]]
    /\ op' = [op EXCEPT !.n = @ + 1]
    /\ UNCHANGED <<pc, inp, state, loc, trace, calls, qc, now, ret, invokes, runs, app, ms, ext, rs>>

\* if time.time() - cached_item["timestamp"] > self.ttl
GetTtl(t) ==
    /\ th[t].pc = "ttl"
    /\ th' = [th EXCEPT ![t].pc = IF now - th[t].ts > ttl THEN "del" ELSE "hit"]
    /\ UNCHANGED <<pc, inp, state, loc, trace, calls, qc, now, ret, invokes, runs, op, app, ms, ext, rs>>

\* del self.cache[key]: KeyError when the key is gone
GetDel(t) ==
    /\ th[t].pc = "del"
    /\ IF HasKey(qc.cache, th[t].key)
       THEN /\ qc' = [qc EXCEPT !.cache = Remove(@, IndexOf(@, th[t].key))]
            /\ th' = [Orphaned(th, t, th[t].key) EXCEPT ![t].pc = "miss"]
       ELSE /\ th' = [th EXCEPT ![t].pc = "idle", ![t].failed = "KeyError"]
            /\ UNCHANGED qc
    /\ UNCHANGED <<pc, inp, state, loc, trace, calls, now, ret, invokes, runs, op, app, ms, ext, rs>>

\* self.misses += 1, the read
GetMissRead(t) ==
    /\ th[t].pc = "miss"
    /\ th' = [th EXCEPT ![t].pc = "miss_w", ![t].tmp = qc.misses]
    /\ UNCHANGED <<pc, inp, state, loc, trace, calls, qc, now, ret, invokes, runs, op, app, ms, ext, rs>>

\* self.misses += 1, the write; return None
GetMissWrite(t) ==
    /\ th[t].pc = "miss_w"
    /\ qc' = [qc EXCEPT !.misses = th[t].tmp + 1]
    /\ th' = [th EXCEPT ![t].pc = "idle"]
    /\ op' = [op EXCEPT !.gets = @ + 1]
    /\ UNCHANGED <<pc, inp, state, loc, trace, calls, now, ret, invokes, runs, app, ms, ext, rs>>

\* self.hits += 1, the read
GetHitRead(t) ==
    /\ th[t].pc = "hit"
    /\ th' = [th EXCEPT ![t].pc = "hit_w", ![t].tmp = qc.hits]
    /\ UNCHANGED <<pc, inp, state, loc, trace, calls, qc, now, ret, invokes, runs, op, app, ms, ext, rs>>

\* self.hits += 1, the write
GetHitWrite(t) ==
    /\ th[t].pc = "hit_w"
    /\ qc' = [qc EXCEPT !.hits = th[t].tmp + 1]
    /\ th' = [th EXCEPT ![t].pc = "touch"]
    /\ UNCHANGED <<pc, inp, state, loc, trace, calls, now, ret, invokes, runs, op, app, ms, ext, rs>>

\* cached_item["access_count"] += 1; cached_item["last_accessed"] = time.time();
\* return cached_item["result"]
GetTouch(t) ==
    /\ th[t].pc = "touch"
    /\ qc' = IF th[t].orphan THEN qc
             ELSE LET i == IndexOf(qc.cache, th[t].key)
                  IN  [qc EXCEPT !.cache[i].access_count = @ + 1,
                                 !.cache[i].last_accessed = now]
    /\ th' = [th EXCEPT ![t].pc = "idle"]
    /\ op' = [op EXCEPT !.gets = @ + 1, !.hit_gets = @ + 1]
    /\ UNCHANGED <<pc, inp, state, loc, trace, calls, now, ret, invokes, runs, app, ms, ext, rs>>

\* set: key = ...; if len(self.cache) >= self.max_size: oldest_key = min(...)
SetBegin(t, query, result, context) ==
    /\ CanCall(t)
    /\ LET key == _generate_key(query, context)
           full == Len(qc.cache) >= max_size
       IN  th' = [th EXCEPT ![t] =
                    [NoThread EXCEPT
                        !.pc = IF full THEN "evict" ELSE "store",
                        !.key = key, !.query = query, !.result = stored_result(result),
                        !.oldest_key = IF full THEN qc.cache[oldest_index(qc.cache)].key
                                       ELSE NoKey]]
    /\ op' = [op EXCEPT !.n = @ + 1]
    /\ UNCHANGED <<pc, inp, state, loc, trace, calls, qc, now, ret, invokes, runs, app, ms, ext, rs>>

\* del self.cache[oldest_key]: KeyError when the key is gone
SetEvict(t) ==
    /\ th[t].pc = "evict"
    /\ IF HasKey(qc.cache, th[t].oldest_key)
       THEN /\ qc' = [qc EXCEPT !.cache = Remove(@, IndexOf(@, th[t].oldest_key))]
            /\ th' = [Orphaned(th, t, th[t].oldest_key) EXCEPT ![t].pc = "store"]
       ELSE /\ th' = [th EXCEPT ![t].pc = "idle", ![t].failed = "KeyError"]
            /\ UNCHANGED qc
    /\ UNCHANGED <<pc, inp, state, loc, trace, calls, now, ret, invokes, runs, op, app, ms, ext, rs>>

\* self.cache[key] = {...}
SetStore(t) ==
    /\ th[t].pc = "store"
    /\ LET key == th[t].key
           entry == [key |-> key, result |-> th[t].result, timestamp |-> now,
                     last_accessed |-> now, access_count |-> 1, query |-> th[t].query]
       IN  /\ qc' = [qc EXCEPT !.cache =
                        IF HasKey(@, key) THEN [@ EXCEPT ![IndexOf(@, key)] = entry]
                        ELSE Append(@, entry)]
           /\ th' = [(IF HasKey(qc.cache, key) THEN Orphaned(th, t, key) ELSE th)
                        EXCEPT ![t].pc = "idle"]
    /\ UNCHANGED <<pc, inp, state, loc, trace, calls, now, ret, invokes, runs, op, app, ms, ext, rs>>

NextThreads ==
    \/ \E t \in Threads, a \in ThreadArgs : GetBegin(t, a[1], a[2])
    \/ \E t \in Threads, a \in ThreadArgs, r \in ApiResults : SetBegin(t, a[1], r, a[2])
    \/ \E t \in Threads :
          \/ GetTtl(t) \/ GetDel(t) \/ GetMissRead(t) \/ GetMissWrite(t)
          \/ GetHitRead(t) \/ GetHitWrite(t) \/ GetTouch(t)
          \/ SetEvict(t) \/ SetStore(t)
    \/ Tick

SpecThreads == Init /\ [][NextThreads]_vars

(***************************************************************************)
(* Claims.                                                                 *)
(***************************************************************************)
IsPrefix(s, t) == Len(s) <= Len(t) /\ SubSeq(t, 1, Len(s)) = s

PathDirect ==
    <<"query_analysis", "internal_db_search", "relevance_check",
      "build_context", "generation">>

PathExternal ==
    <<"query_analysis", "internal_db_search", "relevance_check",
      "naver_search", "build_context", "generation">>

\* graph.invoke has returned in the current run
Invoked == pc \in {"store", "done"} /\ ret.kind \notin {"raised", "cached"}

\* C1 (cache idempotence): of two consecutive run_query calls with the same
\* user_query and chat_history and caching enabled, the first having run the
\* pipeline and the second made within ttl of it, the second is served from
\* the cache with the first call's answer, so the pipeline ran once.
C1_CacheIdempotence ==
    \A i \in 1..(Len(runs) - 1) :
        LET a == runs[i]
            b == runs[i + 1]
        IN  (/\ a.user_query = b.user_query
             /\ a.chat_history = b.chat_history
             /\ a.use_cache /\ b.use_cache
             /\ a.kind = "result"
             /\ b.time - a.time <= ttl)
            => (b.kind = "cached" /\ "answer" \in b.keys /\ b.answer = a.answer)

\* C2 (never-empty answer): whatever run_query returns has a non-empty answer.
C2_NeverEmptyAnswer ==
    (pc = "done" /\ ret.kind # "raised")
        => ("answer" \in ret.keys /\ ret.body.answer # <<>>)

\* C3 (stage order): the nodes a graph.invoke has executed are always an
\* initial part of one of the two paths of the graph, naver_search only
\* between relevance_check and build_context, and when graph.invoke has
\* returned they are one of the two paths in full: every other node exactly
\* once, in order.
C3_StageOrder ==
    /\ IsPrefix(trace, PathDirect) \/ IsPrefix(trace, PathExternal)
    /\ Invoked => trace \in {PathDirect, PathExternal}

C3_Witness == pc = "done" /\ trace = PathExternal /\ ret.kind = "result"

\* C4 (no unhandled fault): no exception leaves run_query.
C4_NoUnhandledFault == pc = "done" => ret.kind # "raised"

\* C5 (fault isolation): whichever of the analyzer, the internal search, the
\* judge, the providers and the generation fail, a call that reaches
\* graph.invoke runs build_context and generation after the earlier nodes,
\* returns on the normal path unless the cache store itself raised, and goes
\* through naver_search whenever the internal search left no results.
C5_FaultIsolation ==
    (pc = "done" /\ ret.kind \notin {"raised", "cached"}) =>
        /\ \E i, j \in DOMAIN trace :
              i < j /\ trace[i] = "build_context" /\ trace[j] = "generation"
        /\ ret.kind = "result" \/ (inp.use_cache /\ ret.error = "TypeError")
        /\ state.es_results.queries = <<>> => "naver_search" \in Range(trace)

C5_Witness ==
    /\ pc = "done" /\ ret.kind = "result"
    /\ state.es_results.queries = <<>>
    /\ calls # <<>> /\ \A k \in DOMAIN calls : ~calls[k].ok
    /\ state.answer = GenerationError

Checked == "relevance_check" \in Range(trace)

\* C6 (forced external): after relevance_check on a query with a recency
\* keyword, need_websearch holds every sub-query of query_analysis.
C6_ForcedExternal ==
    (Checked /\ needs_recent_info(state.user_query))
        => Range(sub_queries_of(state)) \subseteq Range(state.need_websearch)

C6_Witness ==
    /\ Checked /\ needs_recent_info(state.user_query)
    /\ Len(state.es_results.queries) = 2
    /\ \A i \in DOMAIN state.es_results.queries : state.es_results.queries[i].v # <<>>
    /\ Len(state.need_websearch) = 2

\* neither the recency keyword nor the analyzer's needs_web_search flag
NoOverride(st) ==
    /\ ~needs_recent_info(st.user_query)
    /\ ~("needs_web_search" \in st.query_analysis.keys /\ st.query_analysis.needs_web_search)

\* every sub-query has an internal hit scored above the threshold (0.9)
AllHitsSufficient(st) ==
    /\ st.es_results.queries # <<>>
    /\ Range(sub_queries_of(st)) \subseteq Range(DictKeys(st.es_results.queries))
    /\ \A i \in DOMAIN st.es_results.queries :
          \E j \in DOMAIN st.es_results.queries[i].v :
              st.es_results.queries[i].v[j].score > 90

\* C7 as claimed (branch correctness): with such hits and no override,
\* relevance_check finds the hits sufficient and no provider is called.
C7_BranchCorrectness ==
    (Checked /\ NoOverride(state) /\ AllHitsSufficient(state))
        => (state.is_relevant_enough /\ pc # "naver_search" /\ calls = <<>>)

\* C7 as amended: with such hits, no override, and a judge whose answer for
\* every sub-query holds no "web" (or whose call fails), relevance_check sets
\* is_relevant_enough and the graph goes to build_context; a run that skips
\* naver_search calls no provider.
C7_BranchWhenJudgeAgrees ==
    /\ [][(pc = "relevance_check" /\ pc' # "relevance_check") =>
            \A judge \in Judges(state) :
                (/\ state' = check_relevance(state, judge)
                 /\ NoOverride(state) /\ AllHitsSufficient(state)
                 /\ \A q \in DOMAIN judge :
                       judge[q] = "raise" \/ ~ContainsWeb(LowerStrip(judge[q])))
                => (state'.is_relevant_enough /\ pc' = "build_context")]_vars
    /\ []((pc # "naver_search" /\ "naver_search" \notin Range(trace)) => calls = <<>>)

C7_Witness ==
    /\ pc = "done" /\ ret.kind = "result"
    /\ NoOverride(state) /\ AllHitsSufficient(state)
    /\ Len(state.es_results.queries) = 2
    /\ state.is_relevant_enough /\ trace = PathDirect /\ calls = <<>>

\* C8 (fallback chain): a DuckDuckGo call directly follows a failed Naver
\* call for the same entry of need_websearch; no provider is called twice
\* for an entry; after a successful call nothing more is called for the
\* entry; and when search_naver is over Naver was called for every entry.
C8_FallbackOrder ==
    /\ \A k \in DOMAIN calls :
          calls[k].provider = "duckduckgo" =>
              /\ k > 1
              /\ calls[k - 1].i = calls[k].i
              /\ calls[k - 1].provider = "naver"
              /\ ~calls[k - 1].ok
    /\ \A k, m \in DOMAIN calls :
          (k # m /\ calls[k].i = calls[m].i) => calls[k].provider # calls[m].provider
    /\ \A k, m \in DOMAIN calls : (k < m /\ calls[k].ok) => calls[m].i # calls[k].i
    /\ "naver_search" \in Range(trace) =>
          \A i \in DOMAIN state.need_websearch :
              \E k \in DOMAIN calls : calls[k].i = i /\ calls[k].provider = "naver"

C8_Witness ==
    /\ "naver_search" \in Range(trace)
    /\ Len(state.need_websearch) = 2
    /\ \E k, m \in DOMAIN calls :
          /\ calls[k].provider = "duckduckgo" /\ calls[k].ok
          /\ calls[m].provider = "naver" /\ calls[m].ok

\* the provider whose call succeeded for sub-query q, each q searched once
ServedBy(q, provider) ==
    /\ \E k \in DOMAIN calls : calls[k].q = q /\ calls[k].ok /\ calls[k].provider = provider
    /\ \A k, m \in DOMAIN calls : (calls[k].q = q /\ calls[m].q = q) => calls[k].i = calls[m].i

\* the sources of the final list that stem from a result of the provider
DerivedFrom(provider) ==
    {src \in Range(state.sources) :
        \/ provider = "naver" /\ src.source_type = "naver"
        \/ \E i \in DOMAIN state.web_results :
              /\ ServedBy(state.web_results[i].q, provider)
              /\ yields_source(state.web_results[i].v)
              /\ src = web_source(state.web_results[i].v)}

\* C9 (fallback tagging): a source that stems from the fallback provider's
\* result carries a tag that no source stemming from the primary provider
\* carries.
C9_FallbackTagged ==
    ("build_context" \in Range(trace)) =>
        \A s1 \in DerivedFrom("duckduckgo"), s2 \in DerivedFrom("naver") :
            s1.source_type # s2.source_type

\* C10 (dedup): the sources list never holds two entries with the same
\* non-empty url.
C10_DedupByUrl ==
    \A i, j \in DOMAIN state.sources :
        (i < j /\ state.sources[i].url # "") => state.sources[i].url # state.sources[j].url

C10_Witness ==
    /\ "build_context" \in Range(trace)
    /\ LET c == candidate_sources(state, max_sources)
       IN  \E i, j \in DOMAIN c :
              /\ i < j /\ c[i].url # "" /\ c[i].url = c[j].url
              /\ c[i].source_type = "internal_db" /\ c[j].source_type = "web"

Built == "build_context" \in Range(trace)

\* no internal hit and nothing usable from the external search
NoEvidence ==
    /\ \A i \in DOMAIN state.es_results.queries : state.es_results.queries[i].v = <<>>
    /\ state.naver_results = <<>>
    /\ \A i \in DOMAIN state.web_results : ~yields_source(state.web_results[i].v)

\* C11 (context sentinel): after build_context the context is not empty, and
\* without any evidence it is exactly the no-results sentinel.
C11_ContextSentinel ==
    Built => /\ state.context # <<>>
             /\ NoEvidence => state.context = NoResultsContext

C11_Witness ==
    /\ Built /\ NoEvidence
    /\ Len(state.es_results.queries) = 2
    /\ calls # <<>> /\ \A k \in DOMAIN calls : ~calls[k].ok
    /\ state.context = NoResultsContext

\* the internal search found nothing: no entry at all, or no hit in any entry
EmptyStore ==
    \A i \in DOMAIN state.es_results.queries : state.es_results.queries[i].v = <<>>

\* C12 (empty internal store): when the internal search found nothing,
\* relevance_check leaves is_relevant_enough false, the run goes through
\* naver_search with a Naver call for every sub-query, and the sources are
\* non-empty only if some provider call succeeded.
C12_EmptyStore ==
    (Checked /\ EmptyStore) =>
        /\ ~state.is_relevant_enough
        /\ Range(sub_queries_of(state)) \subseteq Range(state.need_websearch)
        /\ Built =>
              /\ "naver_search" \in Range(trace)
              /\ \A i \in DOMAIN state.need_websearch :
                    \E k \in DOMAIN calls : calls[k].i = i /\ calls[k].provider = "naver"
              /\ state.sources # <<>> => \E k \in DOMAIN calls : calls[k].ok

\* the key of the last get was stored and its last set is more than ttl ago
ExpiredAtGet ==
    /\ HasKey(op.before.cache, op.key)
    /\ op.time - op.set_at[op.key] > ttl

\* C13 (cache expiry): a get returns nothing exactly when the key is not
\* stored or its last set is more than ttl ago, hits in between not
\* counting; a hit changes last_accessed and access_count of the entry only,
\* and a get that finds the entry expired removes it.
C13_CacheExpiry ==
    op.name = "get" =>
        /\ ~op.found <=> (~HasKey(op.before.cache, op.key) \/ ExpiredAtGet)
        /\ ExpiredAtGet => ~HasKey(qc.cache, op.key)
        /\ op.found =>
              /\ HasKey(qc.cache, op.key)
              /\ EntryOf(qc.cache, op.key) =
                    [EntryOf(op.before.cache, op.key) EXCEPT
                        !.last_accessed = op.time, !.access_count = @ + 1]
              /\ op.result = EntryOf(op.before.cache, op.key).result

\* an entry set at 0 and hit since is asked for after its ttl
C13_Witness ==
    /\ op.name = "get" /\ ~op.found /\ ExpiredAtGet
    /\ EntryOf(op.before.cache, op.key).access_count > 1
    /\ op.time - EntryOf(op.before.cache, op.key).last_accessed <= ttl

KeysOf(cache) == {cache[i].key : i \in DOMAIN cache}

\* the entries of the cache before the last call that are gone after it
RemovedByOp == {i \in DOMAIN op.before.cache : op.before.cache[i].key \notin KeysOf(qc.cache)}

\* C14 (LRU eviction): last_accessed of a stored entry is the time of its
\* last set or hit; a set on a full cache removes at most one of the entries
\* (one when the key is new), and none of the entries was accessed earlier
\* than the removed one.
C14_LruEviction ==
    /\ \A i \in DOMAIN qc.cache :
          qc.cache[i].last_accessed = op.acc_at[qc.cache[i].key]
    /\ (op.name = "set" /\ Len(op.before.cache) >= max_size) =>
          /\ Cardinality(RemovedByOp) <= 1
          /\ op.key \notin KeysOf(op.before.cache) => Cardinality(RemovedByOp) = 1
          /\ \A i \in RemovedByOp, j \in DOMAIN op.before.cache :
                op.before.cache[i].last_accessed <= op.before.cache[j].last_accessed

\* the entry stored first was hit after the second was stored, and a set of
\* a new key removes the second
C14_Witness ==
    /\ op.name = "set" /\ Len(op.before.cache) >= max_size
    /\ op.key \notin KeysOf(op.before.cache)
    /\ RemovedByOp = {2}
    /\ op.before.cache[1].timestamp < op.before.cache[2].timestamp
    /\ op.before.cache[1].access_count > 1

\* C15 (capacity bound): the cache never holds more than max_size entries,
\* each key at most once.
C15_CapacityBound ==
    /\ Len(qc.cache) <= max_size
    /\ \A i, j \in DOMAIN qc.cache : i # j => qc.cache[i].key # qc.cache[j].key

\* a new key was set on a full cache
C15_Witness ==
    /\ op.name = "set" /\ Len(op.before.cache) = max_size
    /\ op.key \notin KeysOf(op.before.cache)
    /\ Len(qc.cache) = max_size /\ op.key \in KeysOf(qc.cache)

\* C17 (hit/miss accounting): since the construction or the last clear, hits
\* is the number of gets that returned an entry and misses the number of
\* gets that returned none, so hits + misses is the number of gets.
C17_HitMissAccounting ==
    /\ qc.hits = op.hit_gets
    /\ qc.misses = op.gets - op.hit_gets
    /\ qc.hits + qc.misses = op.gets

\* after a clear: a hit, then a get that finds the entry expired
C17_Witness ==
    /\ op.name = "get" /\ ~op.found /\ ExpiredAtGet
    /\ qc.hits = 1 /\ qc.misses = 1
    /\ op.n > op.gets + 1

Quiescent == \A t \in Threads : th[t].pc = "idle"

\* C16 (atomic cache access): whatever the interleaving of the get and set
\* calls of the threads, no call ends in an exception, the cache stays
\* within max_size, and once all calls have returned the counters account
\* for every get, as they do after the same calls in any sequential order.
C16_AtomicPerKey ==
    /\ \A t \in Threads : th[t].failed = ""
    /\ Len(qc.cache) <= max_size
    /\ Quiescent => (qc.hits = op.hit_gets /\ qc.misses = op.gets - op.hit_gets)

\* C18 (termination): a run that has entered the graph eventually returns.
C18_EventuallyReturns == (pc = "query_analysis") ~> (pc = "done")

(***************************************************************************)
(* C19: the method of a /query response is one of the fixed labels and     *)
(* names the path that produced the answer: a response served from the     *)
(* cache does not carry the label of a full pipeline run, and a response   *)
(* of the fallback agent carries the branch NewsAgent.run executed.        *)
(***************************************************************************)
MethodLabels == {"integrated_rag", "api_search", "llm_generate", "cache_hit"}

C19_MethodLabel ==
    app.response.kind = "ok" =>
        /\ app.response.method \in MethodLabels
        /\ app.path = "cache" => app.response.method # "integrated_rag"
        /\ app.path \in {"api_search", "llm_generate"} => app.response.method = app.path

\* C20 (branch predicate): the step out of relevance_check goes to
\* naver_search exactly when the state it leaves has a non-empty
\* need_websearch or is_relevant_enough false, and to build_context otherwise.
C20_BranchPredicate ==
    [][(pc = "relevance_check" /\ pc' # "relevance_check") =>
          /\ pc' \in {"naver_search", "build_context"}
          /\ pc' = "naver_search" <=>
                (Len(state'.need_websearch) > 0 \/ ~state'.is_relevant_enough)
          /\ pc' = "build_context" <=>
                (state'.is_relevant_enough /\ Len(state'.need_websearch) = 0)]_vars

C20_Witness ==
    /\ pc = "naver_search" /\ trace # <<>> /\ trace[Len(trace)] = "relevance_check"
    /\ state.need_websearch = <<>> /\ ~state.is_relevant_enough

\* C21 (aggregate consistency): once relevance_check has run,
\* is_relevant_enough is true exactly when need_websearch is empty.
C21_AggregateConsistency ==
    Checked => (state.is_relevant_enough <=> state.need_websearch = <<>>)

\* C22 (empty-hits rule): with no recency hint and no analyzer flag, every
\* sub-query whose internal hit list is empty is in need_websearch after
\* relevance_check, whatever the judge answered.
C22_EmptyHitsRule ==
    (Checked /\ NoOverride(state)) =>
        \A i \in DOMAIN state.es_results.queries :
            state.es_results.queries[i].v = <<>>
                => state.es_results.queries[i].q \in Range(state.need_websearch)

\* the judge responses that hold "web" once lower-cased and trimmed
WebAnswers == {"WEB ", "Web search"}

\* C23 (judge decoding): when relevance_check asks the judge (entries to
\* judge, no recency hint, no analyzer flag), a sub-query is in
\* need_websearch exactly when the judge's response for it holds "web"; a
\* failed call counts as sufficient, and the node returns to one of its two
\* successors.
C23_JudgeDecoding ==
    [][(pc = "relevance_check" /\ pc' # "relevance_check") =>
          /\ pc' \in {"naver_search", "build_context"}
          /\ \A judge \in Judges(state) :
                (/\ state' = check_relevance(state, judge)
                 /\ NoOverride(state)
                 /\ state.es_results.queries # <<>>)
                => \A q \in DOMAIN judge :
                      q \in Range(state'.need_websearch) <=> judge[q] \in WebAnswers]_vars

C23_Witness ==
    /\ Checked /\ NoOverride(state)
    /\ Len(state.es_results.queries) = 2
    /\ Len(state.need_websearch) = 1
    /\ ~state.is_relevant_enough

Analyzed == "query_analysis" \in Range(trace)

\* C24 (analyzer recency override): for a question with a recency keyword
\* the query_analysis written by analyze_query has search_strategy
\* "internal_and_external" and needs_web_search true, whatever the model
\* answered and also when its call or the parsing failed.
C24_RecencyOverride ==
    (Analyzed /\ needs_recent_info(state.user_query)) =>
        /\ state.query_analysis.search_strategy = "internal_and_external"
        /\ "needs_web_search" \in state.query_analysis.keys
        /\ state.query_analysis.needs_web_search

\* the model output gives no usable sub_queries list
NoSubQueryList(out) ==
    out.kind # "object" \/ "sub_queries" \notin out.keys \/ ~out.sub_is_list

\* C25 (analyzer degradation): analyze_query always hands over to the
\* internal search; query_analysis then carries intent, search_strategy and
\* sub_queries; when the call failed, the output was no JSON object, or
\* sub_queries was missing or no list, sub_queries is [user_query], and a
\* missing intent or search_strategy has its default.
C25_AnalyzerDegradation ==
    /\ [](Analyzed =>
            {"intent", "search_strategy", "sub_queries"} \subseteq state.query_analysis.keys)
    /\ [][(pc = "query_analysis" /\ pc' # "query_analysis") =>
            /\ pc' = "internal_db_search"
            /\ \A out \in AnalysisOutputs :
                  state' = analyze_query(state, out) =>
                      /\ NoSubQueryList(out) =>
                            state'.query_analysis.sub_queries = <<state.user_query>>
                      /\ (out.kind # "object" \/ "intent" \notin out.keys) =>
                            state'.query_analysis.intent = "search"
                      /\ (out.kind # "object" \/ "search_strategy" \notin out.keys) =>
                            state'.query_analysis.search_strategy = "internal_and_external"]_vars

C25_Witness ==
    /\ Analyzed
    /\ state.query_analysis.intent = "qa"
    /\ state.query_analysis.search_strategy = "internal_and_external"
    /\ state.query_analysis.sub_queries = <<state.user_query>>
    /\ ~needs_recent_info(state.user_query)

Searched == "internal_db_search" \in Range(trace)

\* C26 (internal search degraded mode): when the store handle is absent or
\* the search raises, search_internal_db hands over to relevance_check with
\* es_results = {"queries": {}, "total": 0} and every other field of the
\* state as it was.
C26_DegradedInternalSearch ==
    [][(pc = "internal_db_search" /\ pc' # "internal_db_search") =>
          /\ pc' = "relevance_check"
          /\ \A kind \in {"none", "raise"} :
                state' = search_internal_db(state, [kind |-> kind, index |-> NoIndex]) =>
                    /\ state'.es_results =
                           [keys |-> {"queries", "total"}, queries |-> <<>>, total |-> 0]
                    /\ state' = [state EXCEPT !.es_results = state'.es_results]]_vars

C26_Witness ==
    /\ Searched /\ ~Checked
    /\ Len(sub_queries_of(state)) = 2
    /\ state.es_results = [keys |-> {"queries", "total"}, queries |-> <<>>, total |-> 0]

\* the external search stage has returned
ExternalDone ==
    "naver_search" \in Range(trace) \/ "multi_source_search" \in Range(trace)

\* every provider call made for sub-query q failed
AllProvidersFailed(q) == \A k \in DOMAIN calls : calls[k].q = q => ~calls[k].ok

Sentinels == {FailSentinel, MultiSentinel}

IsWebBlock(block) == block = "WEB_SEARCH"

CarriesText(e) == e.v # <<>> /\ e.v \notin Sentinels

\* C27 (all-providers-failed sentinel): when the external stage returns,
\* every entry of need_websearch has been searched and has its web_results
\* entry, which is the "no result" marker when every provider failed for it;
\* after build_context the context has one web block per web_results text
\* that is no marker, and no source is built from a marker.
C27_FailedSentinel ==
    /\ ExternalDone =>
          \A i \in DOMAIN state.need_websearch :
              LET q == state.need_websearch[i]
              IN  /\ \E k \in DOMAIN calls : calls[k].i = i
                  /\ \E j \in DOMAIN state.web_results :
                        /\ state.web_results[j].q = q
                        /\ AllProvidersFailed(q) => state.web_results[j].v \in Sentinels
    /\ (ExternalDone /\ Built) =>
          /\ Len(SelectSeq(state.context, IsWebBlock))
                = Len(SelectSeq(state.web_results, CarriesText))
          /\ \A k \in DOMAIN state.sources :
                \A m \in Sentinels : state.sources[k].title # m[1]

\* C28 (title identity): the sources list built by build_context never
\* holds two entries without URL that carry the same title.
C28_TitleIdentity ==
    Built =>
        \A i, j \in DOMAIN state.sources :
            (i < j /\ state.sources[i].url = "" /\ state.sources[j].url = "")
                => state.sources[i].title # state.sources[j].title

Occurrences(seq, x) == Cardinality({i \in DOMAIN seq : seq[i] = x})

\* the candidates extract_sources_from_state collects, deduplicated by URL
DedupCandidates == dedup_by_url(candidate_sources(state, ext.max_sources), {})

MaxInternalScore ==
    CHOOSE m \in {h.score : h \in HitPool} : \A h \in HitPool : h.score <= m

\* C30 (fixed external score): every source of the final list that stems
\* from an external search result, of whichever provider, carries the same
\* fixed score, and that score lies below the highest internal score.
C30_FixedExternalScore ==
    Built =>
        /\ \A i, j \in DOMAIN state.sources :
              (/\ state.sources[i].source_type \in {"naver", "web"}
               /\ state.sources[j].source_type \in {"naver", "web"})
                  => state.sources[i].score = state.sources[j].score
        /\ \A i \in DOMAIN state.sources :
              state.sources[i].source_type \in {"naver", "web"}
                  => state.sources[i].score < MaxInternalScore

\* a block of the context that carries external (web) evidence
IsExternalBlock(block) == block \in {"NAVER_NEWS", "WEB_SEARCH"}

\* C31 (merge order): in the context built by build_context every external
\* (web) block stands before the internal block.
C31_MergeOrder ==
    Built => \A i, j \in DOMAIN state.context :
                (IsExternalBlock(state.context[i]) /\ state.context[j] = "ES_CONTEXT")
                    => i < j

C31_Witness ==
    /\ Built
    /\ \E i, j, k \in DOMAIN state.context :
          /\ state.context[i] = "NAVER_NEWS" /\ state.context[j] = "WEB_SEARCH"
          /\ state.context[k] = "ES_CONTEXT" /\ i < j /\ j < k

\* C32 (same-sub-query sequencing): a DuckDuckGo call for an entry of
\* need_websearch is made only after the Naver call for that entry has
\* finished with a failure, and never next to a Naver call that succeeded.
C32_SameQuerySequencing ==
    \A k \in DOMAIN calls :
        calls[k].provider = "duckduckgo" =>
            /\ \E j \in 1..(k - 1) :
                  /\ calls[j].i = calls[k].i
                  /\ calls[j].provider = "naver"
                  /\ ~calls[j].ok
            /\ \A j \in DOMAIN calls :
                  (calls[j].i = calls[k].i /\ calls[j].provider = "naver")
                      => ~calls[j].ok

\* the futures collected in the order of their submission: the collection
\* of the first n futures, each with what it returned
RECURSIVE CollectInSubmissionOrder(_)
CollectInSubmissionOrder(n) ==
    IF n = 0 THEN NoMulti
    ELSE LET a == CHOOSE x \in Range(ms.arrived) : x.f = n
             query == state.need_websearch[(n + 1) \div 2]
             source_type == IF n % 2 = 1 THEN "naver" ELSE "duckduckgo"
         IN  multi_collect(CollectInSubmissionOrder(n - 1), source_type, query, a.ok,
                           IF source_type = "naver" THEN a.naver ELSE a.ddg)

MultiReturned == "multi_source_search" \in Range(trace)

\* C33 (arrival-order independence): the web_results and naver_results that
\* search_multi_source writes are those it writes when the same provider
\* calls complete in the order of their submission.
C33_ArrivalOrderIndependence ==
    MultiReturned =>
        LET m == CollectInSubmissionOrder(2 * Len(state.need_websearch))
        IN  /\ state.naver_results = m.naver_results
            /\ state.web_results = multi_merge(<<>>, state.need_websearch, m.all_results)

\* C34 (citation append): when the generation step succeeds, the answer is
\* the generated text followed by the formatted list of the state's sources
\* if there are sources and the text holds no citations marker, and is
\* exactly the generated text if it holds a marker or there are no sources.
C34_CitationAppend ==
    [][(pc = "generation" /\ pc' # "generation") =>
          \A out \in GenerationOutputs :
              (out.kind = "ok" /\ state' = generate_answer(state, out)) =>
                  /\ (state.sources # <<>> /\ ~has_citation_marker(out.content)) =>
                        state'.answer =
                            out.content \o format_sources_for_answer(state.sources)
                  /\ (state.sources = <<>> \/ has_citation_marker(out.content)) =>
                        state'.answer = out.content]_vars

C34_Witness ==
    /\ pc = "store" /\ state.sources # <<>>
    /\ state.answer = <<"ans">> \o format_sources_for_answer(state.sources)

\* the position in the graph of the stage that writes a field; 0: the
\* initial state handed to the graph
StageIndex(stage) ==
    CASE stage = "query_analysis" -> 1
      [] stage = "internal_db_search" -> 2
      [] stage = "relevance_check" -> 3
      [] stage = "naver_search" -> 4
      [] stage = "build_context" -> 5
      [] stage = "generation" -> 6
      [] OTHER -> 0

ProducerIndex(field) ==
    CASE field \in {"user_query", "chat_history"} -> 0
      [] field = "query_analysis" -> 1
      [] field = "es_results" -> 2
      [] field \in {"is_relevant_enough", "relevance_score", "need_websearch"} -> 3
      [] field \in {"naver_results", "web_results"} -> 4
      [] field \in {"context", "sources"} -> 5
      [] OTHER -> 6

\* the stage that writes the field, or a stage after it, has run
Settled(field) ==
    /\ pc \notin {"idle", "done"}
    /\ \/ ProducerIndex(field) = 0
       \/ \E k \in DOMAIN trace : StageIndex(trace[k]) >= ProducerIndex(field)

WriteOnceFields ==
    {"user_query", "chat_history", "query_analysis", "es_results",
     "is_relevant_enough", "relevance_score", "need_websearch",
     "naver_results", "web_results", "context", "sources"}

\* C35 (write-once fields): no step of a stage changes a state field that
\* its own stage, or a later one, has written before.
C35_WriteOnce ==
    [][\A field \in WriteOnceFields : Settled(field) => state'[field] = state[field]]_vars

C35_Witness ==
    /\ pc = "done" /\ trace = PathExternal /\ ret.kind = "result"
    /\ state.naver_results # <<>> /\ state.sources # <<>>
    /\ state.es_results.total > 0
    /\ state.answer # GenerationError

\* the best-hit scores that enter the average of the last evaluation
TopScores ==
    LET HasHits(hits) == hits # <<>>
        with_hits == SelectSeq(rs.queries_results, HasHits)
    IN  [i \in DOMAIN with_hits |-> with_hits[i][1]]

WithinTopScores ==
    /\ \E i \in DOMAIN TopScores : TopScores[i] <= rs.relevance_score
    /\ \E i \in DOMAIN TopScores : rs.relevance_score <= TopScores[i]

\* C36 as stated (mean within bounds): relevance_score is 0 when no
\* sub-query has a hit, and otherwise lies between the smallest and the
\* largest best-hit score of the sub-queries that have one.
C36_MeanWithinBounds ==
    rs.called =>
        /\ TopScores = <<>> => rs.relevance_score = 0
        /\ TopScores # <<>> => WithinTopScores

\* C36 amended (rounded mean): relevance_score is 0 when no sub-query has
\* a hit, is the score itself when one sub-query has a hit, and lies between
\* the smaller and the larger best-hit score when two have one; with more,
\* the rounding of the sum and of the quotient can put it outside.
C36_RoundedMean ==
    rs.called =>
        /\ TopScores = <<>> => rs.relevance_score = 0
        /\ Len(TopScores) = 1 => rs.relevance_score = TopScores[1]
        /\ Len(TopScores) = 2 => WithinTopScores

C36_Witness ==
    /\ rs.called
    /\ Len(rs.queries_results) = 3 /\ Len(TopScores) = 2
    /\ TopScores[1] < rs.relevance_score /\ rs.relevance_score < TopScores[2]

\* C37 (stored payload): after a run_query call with caching enabled that
\* ran the pipeline and returned its result, get with the arguments of the
\* lookup at the start of a run finds an entry, and the payload of that
\* entry is the pipeline result with its answer.
C37_StoredPayload ==
    [][(runs' # runs /\ runs'[Len(runs')].kind = "result" /\ runs'[Len(runs')].use_cache) =>
          LET r == runs'[Len(runs')]
              got == cache_get(qc', r.user_query, chat_history_dict(r.chat_history), now')
          IN  /\ got.found
              /\ got.result.keys = AgentStateKeys
              /\ got.result.answer = r.answer]_vars

\* C38 (set of a stored key): a set for a key that the cache already holds
\* leaves the other keys of the cache as they were.
C38_SetKeepsOtherKeys ==
    (op.name = "set" /\ op.key \in KeysOf(op.before.cache)) =>
        KeysOf(qc.cache) \ {op.key} = KeysOf(op.before.cache) \ {op.key}

\* C39 (store failure): a run whose pipeline completed returns the result
\* of the pipeline with the generated answer, whether or not the result
\* could be stored in the cache.
C39_StoreFailureHarmless ==
    (pc = "done" /\ "generation" \in Range(trace)) =>
        /\ ret.kind = "result"
        /\ ret.body.answer = state.answer

\* C40 (external-results flag): the flag generate_answer computes for the
\* prompt is true only if a provider call of this run succeeded, and is
\* false when web_results holds nothing but failure markers and empty texts.
C40_ExternalFlag ==
    pc = "generation" =>
        /\ has_web_results(state) => \E k \in DOMAIN calls : calls[k].ok
        /\ (\A i \in DOMAIN state.web_results :
                state.web_results[i].v \in {FailSentinel, <<>>})
              => ~has_web_results(state)
====
